---- MODULE Spec2Model ----
(***************************************************************************)
(* Tile loading and caching subsystem of openearth:                        *)
(*   TileCache + LinkedList   (src/src/data/TileLoader.ts, 534-919)        *)
(*   LoadingQueue, TileLoader (src/src/data/TileLoader.ts, 46-512)         *)
(*   NetworkManager           (src/src/utils/Logger.ts, 232-539)           *)
(*                                                                         *)
(* JavaScript runs these classes on one event-loop thread: every action    *)
(* below is one synchronous run-to-completion step (a public call, or the  *)
(* continuation of a promise / timer).                                     *)
(***************************************************************************)
EXTENDS Integers, Sequences, FiniteSets, Bags, TLC

(***************************************************************************)
(* Bounds of the model.                                                    *)
(***************************************************************************)
MaxNodes == 4        \* linked-list nodes alive (reachable) at one time
MaxTime == 1         \* Date.now() ranges over 0..MaxTime
MaxTileSize == 1     \* tile.size ranges over 0..MaxTileSize
MaxLimit == 2        \* maxSize ranges over 0..MaxLimit
MaxMemLimit == 2     \* maxMemory ranges over 0..MaxMemLimit
MaxLookups == 1      \* cap on hitCount and on missCount
MaxEvictions == 2    \* cap on evictionCount

MaxCalls == 2        \* loadTile calls that miss the cache, per behaviour
MaxConcurrent == 1   \* maxConcurrentLoads ranges over 1..MaxConcurrent
MaxRetries == 1      \* retryAttempts ranges over 0..MaxRetries
MaxStamp == 4        \* enqueue calls on a LoadingQueue used on its own
MaxGets == 4         \* get calls on a TileCache whose statistics are read
TerrainMaxLOD == 1   \* the maxLOD option of the terrain loader ranges over 1..TerrainMaxLOD
TerrainMaxCache == 1 \* its maxCacheSize option ranges over 0..TerrainMaxCache
MaxTerrainLoads == 2 \* its _loadTile calls waiting for their tile at one time
MaxInitialLoads == 2 \* cap on its calls of _loadInitialTiles between two dispose()
MaxTerrainPreloads == 2 \* its _preloadTile calls waiting for their tile at one time
MaxFailedTiles == 1  \* cap on the tiles in its _failedTiles
MaxBoundsTiles == 1  \* cap on the tiles a loadTilesInBounds call asks for
MaxBoundsX == 0      \* its bounds lie in the columns 0..MaxBoundsX
MaxNetRetries == 3   \* setDefaultRetries(r) for r in 0..MaxNetRetries
MaxRetryDelay == 2   \* setDefaultRetryDelay(d) for d in 0..MaxRetryDelay
MaxCallbacks == 3    \* callback functions an EventBus is given, and subscribers per event
MaxKeyCoord == 1     \* the tile keys compared have x, y, z in 0..MaxKeyCoord, or x = 11
MaxZoom == 2         \* the keys asked of a data source under test have z in 0..MaxZoom

VARIABLES
  cache,     \* the TileCache object
  now,       \* Date.now()
  hung,      \* TRUE when a call entered a loop that never exits
  recency,   \* cached keys, most recently set or hit first (TileCache alone)
  keyspace,  \* the keys the callers of a TileCache used alone choose from
  lookups,   \* how many calls of TileCache.get returned a tile, how many null
  queue,     \* the LoadingQueue object
  loader,    \* the TileLoader object: _isInitialized, _dataSources, _config
  net,       \* the NetworkManager singleton
  calls,     \* one record per loadTile call that missed the cache
  lastOp,    \* whether the step taken last was a dispose() call
  terrain,   \* the terrain TileLoader object and its loads under way
  ds,        \* a DataSourceFactory.create call, its data source and its getUrl
  compared,  \* two tile keys with their canonical strings and TileKeyUtils.equals
  bus        \* the EventBus singleton and the record of its last publish

cacheVars == <<cache, now, hung, recency, keyspace, lookups>>
loaderVars == <<queue, loader, net, calls, lastOp>>
sceneVars == <<terrain, ds, compared, bus>>
vars == <<cache, now, hung, recency, keyspace, lookups, queue, loader, net, calls, lastOp,
          terrain, ds, compared, bus>>

\* the scene variables of a behaviour that has no terrain loader, no data
\* source, no tile keys under comparison and no event bus
SceneIdle ==
  /\ terrain = "none"
  /\ ds = "none"
  /\ compared = "none"
  /\ bus = "none"

(***************************************************************************)
(* LinkedList<string>.  A node reference is a node id; 0 is null.  Nodes   *)
(* are heap objects: `nodes` maps the ids of the nodes still reachable to  *)
(* their fields.  LinkedList.size is written but never read by any code    *)
(* of the cache and is left out.                                           *)
(***************************************************************************)
Null == 0

NewList == [nodes |-> <<>>, head |-> Null, tail |-> Null]

FreeIds(L) == (1..MaxNodes) \ DOMAIN L.nodes

FreshId(L) == CHOOSE n \in FreeIds(L) : \A m \in FreeIds(L) : n <= m

\* new LinkedListNode(value); link it in front of head
addFirst(L, value) ==
  LET n == FreshId(L)
      node == [value |-> value, prev |-> Null, next |-> Null]
      withNode == [i \in DOMAIN L.nodes \cup {n} |->
                     IF i = n THEN node ELSE L.nodes[i]]
  IN IF L.head = Null
       THEN [nodes |-> withNode, head |-> n, tail |-> n]
       ELSE [nodes |-> [withNode EXCEPT ![n].next = L.head,
                                        ![L.head].prev = n],
             head |-> n, tail |-> L.tail]

\* LinkedList.remove(node): unlink by the node's own prev/next fields,
\* which are left as they are (stale) in the removed node
listRemove(L, n) ==
  LET p == L.nodes[n].prev
      L1 == IF p # Null
              THEN [L EXCEPT !.nodes[p].next = L.nodes[n].next]
              ELSE [L EXCEPT !.head = L.nodes[n].next]
      x == L1.nodes[n].next
  IN IF x # Null
       THEN [L1 EXCEPT !.nodes[x].prev = L1.nodes[n].prev]
       ELSE [L1 EXCEPT !.tail = L1.nodes[n].prev]

moveToFirst(L, n) ==
  IF n = L.head THEN L
  ELSE LET L1 == listRemove(L, n)
           L2 == [L1 EXCEPT !.nodes[n].prev = Null, !.nodes[n].next = L1.head]
           L3 == IF L2.head # Null
                   THEN [L2 EXCEPT !.nodes[L2.head].prev = n]
                   ELSE L2
           L4 == [L3 EXCEPT !.head = n]
       IN IF L4.tail = Null THEN [L4 EXCEPT !.tail = n] ELSE L4

\* removeLast(): [list, found, value]; found = FALSE is the null result
removeLast(L) ==
  IF L.tail = Null
    THEN [list |-> L, found |-> FALSE, value |-> ""]
    ELSE [list |-> listRemove(L, L.tail), found |-> TRUE,
          value |-> L.nodes[L.tail].value]

(***************************************************************************)
(* TileCache                                                               *)
(***************************************************************************)
NewCache(maxSize, maxMemory) ==
  [map |-> <<>>, order |-> <<>>, list |-> NewList,
   maxSize |-> maxSize, currentSize |-> 0,
   maxMemory |-> maxMemory, currentMemory |-> 0,
   hitCount |-> 0, missCount |-> 0, evictionCount |-> 0]

Has(c, key) == key \in DOMAIN c.map

\* a JavaScript Map iterates in insertion order: `order` lists the keys of
\* `map` in the order they were inserted
SeqDelete(s, key) == SelectSeq(s, LAMBDA k : k # key)

MapDelete(m, key) ==
  IF DOMAIN m \ {key} = {} THEN <<>> ELSE [k \in DOMAIN m \ {key} |-> m[k]]

MapSet(m, key, e) == [k \in DOMAIN m \cup {key} |-> IF k = key THEN e ELSE m[k]]

\* the garbage collector: nodes no longer reachable from the list's head
\* and tail or from a cache entry cease to exist
RECURSIVE Reach(_, _)
Reach(nodes, S) ==
  LET T == S \cup {nodes[n].prev : n \in S} \cup {nodes[n].next : n \in S}
      T1 == T \cap DOMAIN nodes
  IN IF T1 = S THEN S ELSE Reach(nodes, T1)

\* ids of the nodes met walking next-pointers from n
RECURSIVE WalkIds(_, _, _)
WalkIds(L, n, seen) ==
  IF n = Null \/ n \in seen \/ n \notin DOMAIN L.nodes THEN <<>>
  ELSE <<n>> \o WalkIds(L, L.nodes[n].next, seen \cup {n})

RECURSIVE SortIds(_, _)
SortIds(nodes, S) ==
  IF S = {} THEN <<>>
  ELSE LET n == CHOOSE n \in S : \A m \in S :
                  \/ nodes[n].value # nodes[m].value
                  \/ n <= m
           \* smallest id among the nodes of the first value present
           v == CHOOSE v \in {nodes[m].value : m \in S} : TRUE
           f == CHOOSE f \in {m \in S : nodes[m].value = v} :
                  \A m \in {m \in S : nodes[m].value = v} : f <= m
       IN <<f>> \o SortIds(nodes, S \ {f})

\* Node ids are addresses and carry no meaning: the live nodes are
\* renumbered 1, 2, ... in list order, the others after them.
Collect(c) ==
  LET roots == ({c.list.head, c.list.tail} \cup {c.map[k].node : k \in DOMAIN c.map})
                 \cap DOMAIN c.list.nodes
      live == Reach(c.list.nodes, roots)
      inList == WalkIds(c.list, c.list.head, {})
      ids == inList \o SortIds(c.list.nodes, live \ {inList[i] : i \in 1..Len(inList)})
      ren(n) == IF n = Null THEN Null ELSE CHOOSE i \in 1..Len(ids) : ids[i] = n
  IN IF live = {}
       THEN [c EXCEPT !.list.nodes = <<>>]
       ELSE [c EXCEPT
              !.list = [nodes |-> [i \in 1..Len(ids) |->
                                    [value |-> c.list.nodes[ids[i]].value,
                                     prev |-> ren(c.list.nodes[ids[i]].prev),
                                     next |-> ren(c.list.nodes[ids[i]].next)]],
                        head |-> ren(c.list.head),
                        tail |-> ren(c.list.tail)],
              !.map = [k \in DOMAIN c.map |->
                        [c.map[k] EXCEPT !.node = ren(c.map[k].node)]]]

\* JavaScript truthiness of a string
Truthy(s) == s # ""

evictLRU(c) ==
  LET r == removeLast(c.list)
      c1 == [c EXCEPT !.list = r.list]
  IN IF r.found /\ Truthy(r.value) /\ Has(c1, r.value)
       THEN [c1 EXCEPT !.map = MapDelete(c1.map, r.value),
                       !.order = SeqDelete(@, r.value),
                       !.currentSize = @ - 1,
                       !.currentMemory = @ - c1.map[r.value].tile.size,
                       !.evictionCount = @ + 1]
       ELSE c1

\* A while loop over a deterministic body diverges exactly when it comes
\* back to a state it has been in; the result then has hung = TRUE.
RECURSIVE evictWhileCount(_, _)
evictWhileCount(c, seen) ==
  IF ~(c.currentSize > c.maxSize) THEN [c |-> c, hung |-> FALSE]
  ELSE IF c \in seen THEN [c |-> c, hung |-> TRUE]
  ELSE evictWhileCount(evictLRU(c), seen \cup {c})

RECURSIVE evictWhileMemory(_, _)
evictWhileMemory(c, seen) ==
  IF ~(c.currentMemory > c.maxMemory /\ c.currentSize > 0)
    THEN [c |-> c, hung |-> FALSE]
  ELSE IF c \in seen THEN [c |-> c, hung |-> TRUE]
  ELSE evictWhileMemory(evictLRU(c), seen \cup {c})

\* evictIfNecessary without its second loop (the memory limit)
evictIfNecessary_CountOnly(c) == evictWhileCount(c, {})

evictIfNecessary(c) ==
  LET r1 == evictWhileCount(c, {})
  IN IF r1.hung THEN r1 ELSE evictWhileMemory(r1.c, {})

\* get that leaves the access order alone
CacheGet_NoPromote(c, key, t) ==
  IF Has(c, key)
    THEN [c |-> [c EXCEPT !.map[key].tile.lastAccessed = t,
                          !.hitCount = @ + 1],
          hit |-> TRUE]
    ELSE [c |-> [c EXCEPT !.missCount = @ + 1], hit |-> FALSE]

\* TileCache.get: [c, hit]; hit = FALSE is the null result
CacheGet(c, key, t) ==
  IF Has(c, key)
    THEN [c |-> [c EXCEPT !.map[key].tile.lastAccessed = t,
                          !.list = moveToFirst(c.list, c.map[key].node),
                          !.hitCount = @ + 1],
          hit |-> TRUE]
    ELSE [c |-> [c EXCEPT !.missCount = @ + 1], hit |-> FALSE]

\* TileCache.set up to, not including, the closing evictIfNecessary()
CacheInsert(c, key, tile) ==
  IF Has(c, key)
    THEN [c EXCEPT !.map[key].tile = tile,
                   !.currentMemory = @ - c.map[key].tile.size + tile.size,
                   !.list = moveToFirst(c.list, c.map[key].node)]
    ELSE LET L == addFirst(c.list, key)
         IN [c EXCEPT !.list = L,
                      !.map = MapSet(c.map, key, [tile |-> tile, node |-> L.head]),
                      !.order = Append(@, key),
                      !.currentSize = @ + 1,
                      !.currentMemory = @ + tile.size]

CacheSet(c, key, tile) == evictIfNecessary(CacheInsert(c, key, tile))

CacheRemove(c, key) ==
  IF Has(c, key)
    THEN [c EXCEPT !.map = MapDelete(c.map, key),
                   !.order = SeqDelete(@, key),
                   !.list = listRemove(c.list, c.map[key].node),
                   !.currentSize = @ - 1,
                   !.currentMemory = @ - c.map[key].tile.size]
    ELSE c

\* clear that starts the statistics afresh as well
CacheClear_ResetCounters(c) ==
  [c EXCEPT !.map = <<>>, !.order = <<>>, !.list = NewList,
            !.currentSize = 0, !.currentMemory = 0,
            !.hitCount = 0, !.missCount = 0, !.evictionCount = 0]

CacheClear(c) ==
  [c EXCEPT !.map = <<>>, !.order = <<>>, !.list = NewList,
            !.currentSize = 0, !.currentMemory = 0]

\* Math.ceil(n * num / den) for n >= 0, den > 0
CeilDiv(n, den) == (n + den - 1) \div den

\* a rate is the pair <<numerator, denominator>> of the division that
\* getStats makes
\* getStats with the hit rate taken from the miss counter
getStats_RateOfMisses(c) ==
  LET totalRequests == c.hitCount + c.missCount
  IN [size |-> c.currentSize, maxSize |-> c.maxSize,
      hitRate |-> IF totalRequests > 0 THEN <<c.missCount, totalRequests>> ELSE <<0, 1>>,
      missRate |-> IF totalRequests > 0 THEN <<c.missCount, totalRequests>> ELSE <<0, 1>>,
      evictionCount |-> c.evictionCount]

getStats(c) ==
  LET totalRequests == c.hitCount + c.missCount
  IN [size |-> c.currentSize, maxSize |-> c.maxSize,
      hitRate |-> IF totalRequests > 0 THEN <<c.hitCount, totalRequests>> ELSE <<0, 1>>,
      missRate |-> IF totalRequests > 0 THEN <<c.missCount, totalRequests>> ELSE <<0, 1>>,
      evictionCount |-> c.evictionCount]

RECURSIVE evictLoop(_, _, _)
evictLoop(c, i, target) ==
  IF ~(i < target) THEN c
  ELSE LET c1 == evictLRU(c)
       IN IF c1.currentSize = 0 THEN c1 ELSE evictLoop(c1, i + 1, target)

\* percentage = p[1] / p[2]
evictPercentage(c, p) == evictLoop(c, 0, CeilDiv(c.currentSize * p[1], p[2]))

RECURSIVE removeAll(_, _)
removeAll(c, keys) ==
  IF keys = <<>> THEN c ELSE removeAll(CacheRemove(c, Head(keys)), Tail(keys))

evictByAge(c, maxAge, t) ==
  removeAll(c, SelectSeq(c.order,
                 LAMBDA k : t - c.map[k].tile.lastAccessed > maxAge))

setMaxSize(c, maxSize) == evictIfNecessary([c EXCEPT !.maxSize = maxSize])

setMaxMemory(c, maxMemory) == evictIfNecessary([c EXCEPT !.maxMemory = maxMemory])

(***************************************************************************)
(* A TileCache driven directly by its public methods.                      *)
(***************************************************************************)
Percentages == {<<0, 1>>, <<1, 2>>, <<1, 1>>}

\* keys of the cache, most recently set or hit first (kept beside the
\* cache, independent of its linked list)
Touch(rec, key) == <<key>> \o SeqDelete(rec, key)

Prune(rec, c) == SelectSeq(rec, LAMBDA k : Has(c, k))

\* the outcomes of the get calls made so far, counted by their caller
NoLookups == [hits |-> 0, misses |-> 0]

Looked(l, hit) ==
  IF hit THEN [l EXCEPT !.hits = @ + 1] ELSE [l EXCEPT !.misses = @ + 1]

\* the call returns with cache r.c, or never returns (r.hung)
Return(r) ==
  /\ r.c.hitCount <= MaxLookups
  /\ r.c.missCount <= MaxLookups
  /\ r.c.evictionCount <= MaxEvictions
  /\ cache' = Collect(r.c)
  /\ hung' = r.hung

Done(c) == [c |-> c, hung |-> FALSE]

Tick ==
  /\ ~hung
  /\ now < MaxTime
  /\ now' = now + 1
  /\ UNCHANGED <<cache, hung, recency, keyspace, terrain, ds, compared, bus, lookups>>
  /\ UNCHANGED loaderVars

DoGet(key) ==
  /\ ~hung
  /\ Return(Done(CacheGet(cache, key, now).c))
  /\ recency' = IF Has(cache, key) THEN Touch(recency, key) ELSE recency
  /\ lookups' = Looked(lookups, CacheGet(cache, key, now).hit)
  /\ UNCHANGED <<now, keyspace, terrain, ds, compared, bus>>
  /\ UNCHANGED loaderVars

DoSet(key, tile) ==
  /\ ~hung
  /\ Has(cache, key) \/ FreeIds(cache.list) # {}
  /\ LET r == CacheSet(cache, key, tile)
     IN /\ Return(r)
        /\ recency' = Prune(Touch(recency, key), r.c)
  /\ UNCHANGED <<now, keyspace, terrain, ds, compared, bus, lookups>>
  /\ UNCHANGED loaderVars

DoRemove(key) ==
  /\ ~hung
  /\ Return(Done(CacheRemove(cache, key)))
  /\ recency' = Prune(recency, CacheRemove(cache, key))
  /\ UNCHANGED <<now, keyspace, terrain, ds, compared, bus, lookups>>
  /\ UNCHANGED loaderVars

DoClear ==
  /\ ~hung
  /\ Return(Done(CacheClear(cache)))
  /\ recency' = <<>>
  /\ UNCHANGED <<now, keyspace, terrain, ds, compared, bus, lookups>>
  /\ UNCHANGED loaderVars

DoEvictLRU ==
  /\ ~hung
  /\ Return(Done(evictLRU(cache)))
  /\ recency' = Prune(recency, evictLRU(cache))
  /\ UNCHANGED <<now, keyspace, terrain, ds, compared, bus, lookups>>
  /\ UNCHANGED loaderVars

DoEvictPercentage(p) ==
  /\ ~hung
  /\ Return(Done(evictPercentage(cache, p)))
  /\ recency' = Prune(recency, evictPercentage(cache, p))
  /\ UNCHANGED <<now, keyspace, terrain, ds, compared, bus, lookups>>
  /\ UNCHANGED loaderVars

DoEvictByAge(maxAge) ==
  /\ ~hung
  /\ Return(Done(evictByAge(cache, maxAge, now)))
  /\ recency' = Prune(recency, evictByAge(cache, maxAge, now))
  /\ UNCHANGED <<now, keyspace, terrain, ds, compared, bus, lookups>>
  /\ UNCHANGED loaderVars

DoSetMaxSize(n) ==
  /\ ~hung
  /\ Return(setMaxSize(cache, n))
  /\ recency' = Prune(recency, setMaxSize(cache, n).c)
  /\ UNCHANGED <<now, keyspace, terrain, ds, compared, bus, lookups>>
  /\ UNCHANGED loaderVars

DoSetMaxMemory(m) ==
  /\ ~hung
  /\ Return(setMaxMemory(cache, m))
  /\ recency' = Prune(recency, setMaxMemory(cache, m).c)
  /\ UNCHANGED <<now, keyspace, terrain, ds, compared, bus, lookups>>
  /\ UNCHANGED loaderVars

(***************************************************************************)
(* TileKey and the data source                                             *)
(***************************************************************************)
\* TileKeyUtils.toString: `${source}:${layer}:${z}:${x}:${y}`
TileKeyToString(k) ==
  k.source \o ":" \o k.layer \o ":" \o ToString(k.z) \o ":" \o ToString(k.x)
    \o ":" \o ToString(k.y)

\* the tiles asked of the loader, all of the one source "s"
LoaderKeys ==
  {[x |-> 0, y |-> 0, z |-> 1, source |-> "s", layer |-> "l"],
   [x |-> 1, y |-> 0, z |-> 1, source |-> "s", layer |-> "l"]}

Sources == {"s"}

\* XYZDataSource.getUrl with the template "/{z}/{x}/{y}" and no subdomains
XYZGetUrl(k) == "/" \o ToString(k.z) \o "/" \o ToString(k.x) \o "/" \o ToString(k.y)

Priorities == {"HIGH", "NORMAL", "LOW"}

(***************************************************************************)
(* LoadingQueue.  A task is [id, tileKey, priority, since]; id names the   *)
(* loadTile call that built it (its promise) and so the order in which     *)
(* tasks were built; since is kept beside the task and names the call that *)
(* gave the task its present priority.                                     *)
(***************************************************************************)
NewQueue(maxConcurrent) ==
  [tasks |-> <<>>, activeTasks |-> {}, maxConcurrent |-> maxConcurrent]

getPriorityValue(priority) ==
  CASE priority = "HIGH" -> 3
    [] priority = "NORMAL" -> 2
    [] priority = "LOW" -> 1
    [] OTHER -> 0

InsertAt(s, i, e) == SubSeq(s, 1, i - 1) \o <<e>> \o SubSeq(s, i, Len(s))

RemoveAt(s, i) == SubSeq(s, 1, i - 1) \o SubSeq(s, i + 1, Len(s))

\* index of the first task with this key, 0 when there is none (findIndex)
FindIndex(tasks, key) ==
  LET I == {i \in 1..Len(tasks) : TileKeyToString(tasks[i].tileKey) = key}
  IN IF I = {} THEN 0 ELSE CHOOSE i \in I : \A j \in I : i <= j

\* the insertion point found with >= instead of >
insertByPriority_BeforeEqual(tasks, task) ==
  LET I == {i \in 1..Len(tasks) :
              getPriorityValue(task.priority) >= getPriorityValue(tasks[i].priority)}
      insertIndex == IF I = {} THEN Len(tasks) + 1
                     ELSE CHOOSE i \in I : \A j \in I : i <= j
  IN InsertAt(tasks, insertIndex, task)

insertByPriority(tasks, task) ==
  LET I == {i \in 1..Len(tasks) :
              getPriorityValue(task.priority) > getPriorityValue(tasks[i].priority)}
      insertIndex == IF I = {} THEN Len(tasks) + 1
                     ELSE CHOOSE i \in I : \A j \in I : i <= j
  IN InsertAt(tasks, insertIndex, task)

\* enqueue that gives the pending task the priority of any new request
enqueue_Reprioritise(q, task) ==
  LET existingIndex == FindIndex(q.tasks, TileKeyToString(task.tileKey))
  IN IF existingIndex > 0
       THEN LET existingTask == q.tasks[existingIndex]
            IN IF task.priority # existingTask.priority
                 THEN [q EXCEPT !.tasks =
                         insertByPriority(RemoveAt(q.tasks, existingIndex),
                                          [existingTask EXCEPT !.priority = task.priority,
                                                               !.since = task.since])]
                 ELSE q
       ELSE [q EXCEPT !.tasks = insertByPriority(q.tasks, task)]

enqueue(q, task) ==
  LET existingIndex == FindIndex(q.tasks, TileKeyToString(task.tileKey))
  IN IF existingIndex > 0
       THEN LET existingTask == q.tasks[existingIndex]
            IN IF task.priority = "HIGH" /\ existingTask.priority # "HIGH"
                 THEN [q EXCEPT !.tasks =
                         insertByPriority(RemoveAt(q.tasks, existingIndex),
                                          [existingTask EXCEPT !.priority = "HIGH",
                                                               !.since = task.since])]
                 ELSE q
       ELSE [q EXCEPT !.tasks = insertByPriority(q.tasks, task)]

\* dequeue without the test of the concurrency ceiling
dequeue_NoCeiling(q) ==
  IF Len(q.tasks) = 0
    THEN [q |-> q, found |-> FALSE]
    ELSE [q |-> [q EXCEPT !.tasks = Tail(q.tasks),
                          !.activeTasks = @ \cup {TileKeyToString(Head(q.tasks).tileKey)}],
          found |-> TRUE]

\* dequeue(): [q, found]; found = FALSE is the null result
dequeue(q) ==
  IF Len(q.tasks) = 0 \/ Cardinality(q.activeTasks) >= q.maxConcurrent
    THEN [q |-> q, found |-> FALSE]
    ELSE [q |-> [q EXCEPT !.tasks = Tail(q.tasks),
                          !.activeTasks = @ \cup {TileKeyToString(Head(q.tasks).tileKey)}],
          found |-> TRUE]

queueRemove(q, key) ==
  LET queueIndex == FindIndex(q.tasks, key)
  IN [q EXCEPT !.tasks = IF queueIndex > 0 THEN RemoveAt(q.tasks, queueIndex) ELSE @,
               !.activeTasks = @ \ {key}]

\* clear that forgets the active set
queueClear_TasksOnly(q) == [q EXCEPT !.tasks = <<>>]

queueClear(q) == [q EXCEPT !.tasks = <<>>, !.activeTasks = {}]

(***************************************************************************)
(* NetworkManager.  A call's request is "waiting" (its executor sits in    *)
(* requestQueue), "fetching" (an attempt's fetch is in flight) or in       *)
(* "backoff" (between attempts); then the loadTile promise is "resolved"   *)
(* or "rejected".  activeRequests maps a requestId to the AbortController  *)
(* of an attempt, named by its call.  A requestId is                       *)
(* `${method}-${url}-${Date.now()}`: requests for one URL started in the   *)
(* same millisecond have the same one; rid is the id of the first call     *)
(* that has it.  aborted: the controller of the attempt in flight is       *)
(* aborted; signalAborted: the caller's abortSignal is aborted; caught:    *)
(* preloadTiles has put its catch handler on the promise.                  *)
(***************************************************************************)
NewCall(tileKey) ==
  [tileKey |-> tileKey, state |-> "waiting", attempt |-> 0, fetches |-> 0,
   aborted |-> FALSE, rid |-> 0, outcome |-> "", signalAborted |-> FALSE,
   caught |-> FALSE, delay |-> 0]

Pending(call) == call.state \in {"waiting", "fetching", "backoff"}

\* requestIds a request for this URL can get: a new one, or that of a
\* request for the same URL that is under way
RidChoices(cs, c) ==
  {c} \cup {cs[d].rid : d \in {d \in 1..Len(cs) :
                                 /\ d # c
                                 /\ cs[d].state \in {"fetching", "backoff"}
                                 /\ XYZGetUrl(cs[d].tileKey) = XYZGetUrl(cs[c].tileKey)}}

\* one pass of the for loop of executeRequest up to `await fetch(...)`
startAttempt(n, cs, c, attempt, rid) ==
  [net |-> [n EXCEPT !.activeRequests = MapSet(@, rid, c)],
   calls |-> [cs EXCEPT ![c].state = "fetching", ![c].attempt = attempt,
                        ![c].fetches = @ + 1, ![c].aborted = FALSE,
                        ![c].rid = rid, ![c].delay = 0]]

\* NetworkManager.request for call c
request(n, cs, c, rid) ==
  IF n.currentRequests < n.maxConcurrentRequests
    THEN startAttempt([n EXCEPT !.currentRequests = @ + 1], cs, c, 0, rid)
    ELSE [net |-> [n EXCEPT !.requestQueue = Append(@, c)], calls |-> cs]

\* NetworkManager.processQueue
netProcessQueue(n, cs, rid) ==
  IF Len(n.requestQueue) > 0 /\ n.currentRequests < n.maxConcurrentRequests
    THEN startAttempt([n EXCEPT !.requestQueue = Tail(@), !.currentRequests = @ + 1],
                      cs, Head(n.requestQueue), 0, rid)
    ELSE [net |-> n, calls |-> cs]

\* the finally block of requestExecutor
executorFinally(n, cs, rid) ==
  netProcessQueue([n EXCEPT !.currentRequests = @ - 1], cs, rid)

\* the requestId the executor at the head of requestQueue may get
NextRids(n, cs) ==
  IF Len(n.requestQueue) > 0 THEN RidChoices(cs, Head(n.requestQueue)) ELSE {0}

cancelAllRequests(n, cs) ==
  [net |-> [n EXCEPT !.activeRequests = <<>>, !.requestQueue = <<>>,
                     !.currentRequests = 0],
   calls |-> [c \in 1..Len(cs) |->
                IF \E r \in DOMAIN n.activeRequests : n.activeRequests[r] = c
                  THEN [cs[c] EXCEPT !.aborted = TRUE]
                  ELSE cs[c]]]

(***************************************************************************)
(* TileLoader                                                              *)
(***************************************************************************)
ResponseSize == 1    \* byteLength of the ArrayBuffer a tile request returns

NewLoader(maxConcurrentLoads, retryAttempts) ==
  [isInitialized |-> FALSE, dataSources |-> {},
   maxConcurrentLoads |-> maxConcurrentLoads, retryAttempts |-> retryAttempts]

\* the retry delay of a NetworkManager, and of a TileLoader whose config
\* names none, in milliseconds
defaultRetryDelay == 1000

NewNet(maxConcurrentRequests) ==
  [activeRequests |-> <<>>, requestQueue |-> <<>>,
   maxConcurrentRequests |-> maxConcurrentRequests, currentRequests |-> 0,
   defaultRetryDelay |-> defaultRetryDelay]

\* the data source is taken for registered whatever the key's source
hasDataSource_Always(l, tileKey) == TRUE

\* _executeLoadTask: this._dataSources.get(task.tileKey.source) is defined
hasDataSource(l, tileKey) == tileKey.source \in l.dataSources

RECURSIVE processQueue(_, _)
processQueue(q, maxConcurrentLoads) ==
  IF Cardinality(q.activeTasks) < maxConcurrentLoads
    THEN LET d == dequeue(q)
         IN IF d.found THEN processQueue(d.q, maxConcurrentLoads) ELSE q
    ELSE q

Initialize ==
  /\ loader' = [loader EXCEPT !.isInitialized = TRUE]
  /\ lastOp' = "other"
  /\ UNCHANGED <<queue, net, calls>>
  /\ UNCHANGED <<cacheVars, sceneVars>>

Dispose ==
  /\ IF ~loader.isInitialized
       THEN UNCHANGED <<queue, net, calls, cache, loader>>
       ELSE LET r == cancelAllRequests(net, calls)
            IN /\ net' = r.net
               /\ calls' = r.calls
               /\ queue' = queueClear(queue)
               /\ cache' = Collect(CacheClear(cache))
               /\ loader' = [loader EXCEPT !.isInitialized = FALSE]
  /\ lastOp' = IF loader.isInitialized THEN "dispose" ELSE "dispose-uninitialized"
  /\ UNCHANGED <<now, hung, recency, keyspace, terrain, ds, compared, bus, lookups>>

ClearCache ==
  /\ cache' = Collect(CacheClear(cache))
  /\ lastOp' = "other"
  /\ UNCHANGED <<queue, net, calls, loader>>
  /\ UNCHANGED <<now, hung, recency, keyspace, terrain, ds, compared, bus, lookups>>

AddDataSource(name) ==
  /\ loader' = [loader EXCEPT !.dataSources = @ \cup {name}]
  /\ lastOp' = "other"
  /\ UNCHANGED <<queue, net, calls>>
  /\ UNCHANGED <<cacheVars, sceneVars>>

RemoveDataSource(name) ==
  /\ loader' = [loader EXCEPT !.dataSources = @ \ {name}]
  /\ lastOp' = "other"
  /\ UNCHANGED <<queue, net, calls>>
  /\ UNCHANGED <<cacheVars, sceneVars>>

\* the objects a call of the loader works on
Here ==
  [cache |-> cache, queue |-> queue, net |-> net, calls |-> calls,
   lookups |-> lookups, valid |-> TRUE]

\* loadTile up to the return of the promise: the cache lookup, the
\* synchronous part of _executeLoadTask, enqueue and _processQueue.
\* l is the loader, t is Date.now(), rid the requestId of the request;
\* valid tells whether Date.now() can have given that requestId.
loadTile(st, l, t, tileKey, priority, rid) ==
  LET key == TileKeyToString(tileKey)
      g == CacheGet(st.cache, key, t)
      c == Len(st.calls) + 1
      task == [id |-> c, tileKey |-> tileKey, priority |-> priority, since |-> c]
      cs == Append(st.calls, NewCall(tileKey))
      st1 == [st EXCEPT !.cache = g.c, !.lookups = Looked(@, g.hit)]
  IN IF g.hit THEN st1
     ELSE IF ~hasDataSource(l, tileKey)
       THEN \* throw, catch, finally: all before enqueue
            [st1 EXCEPT
               !.calls = [cs EXCEPT ![c].state = "rejected",
                                    ![c].outcome = "nosource"],
               !.queue = processQueue(enqueue(queueRemove(st.queue, key), task),
                                      l.maxConcurrentLoads)]
       ELSE LET r == request(st.net, cs, c, rid)
            IN [st1 EXCEPT
                  !.calls = r.calls,
                  !.net = r.net,
                  !.queue = processQueue(enqueue(st.queue, task),
                                         l.maxConcurrentLoads),
                  !.valid = @ /\ rid \in RidChoices(cs, c)]

LoadTile(tileKey, priority) ==
  \E rid \in RidChoices(Append(calls, NewCall(tileKey)), Len(calls) + 1) :
    \E r \in {loadTile(Here, loader, now, tileKey, priority, rid)} :
       /\ r.valid
       /\ r.cache.hitCount <= MaxLookups
       /\ Len(r.calls) <= MaxCalls
       /\ cache' = Collect(r.cache)
       /\ lookups' = r.lookups
       /\ queue' = r.queue
       /\ net' = r.net
       /\ calls' = r.calls
       /\ lastOp' = "other"
       /\ UNCHANGED <<now, hung, recency, keyspace, terrain, ds, compared, bus, loader>>

\* one pass of the forEach of preloadTiles, at NORMAL priority
preloadOne_AtNormal(st, l, t, tileKey, rid) ==
  IF Has(st.cache, TileKeyToString(tileKey)) THEN st
  ELSE LET r == loadTile(st, l, t, tileKey, "NORMAL", rid)
       IN [r EXCEPT !.calls[Len(r.calls)].caught = TRUE]

\* one pass of the forEach of preloadTiles: has(key) is a plain lookup of
\* the map; loadTile(...).catch(...) puts the handler on the promise
preloadOne(st, l, t, tileKey, rid) ==
  IF Has(st.cache, TileKeyToString(tileKey)) THEN st
  ELSE LET r == loadTile(st, l, t, tileKey, "LOW", rid)
       IN [r EXCEPT !.calls[Len(r.calls)].caught = TRUE]

RECURSIVE preloadTiles(_, _, _, _, _)
preloadTiles(st, l, t, tileKeys, rids) ==
  IF tileKeys = <<>> THEN st
  ELSE preloadTiles(preloadOne(st, l, t, Head(tileKeys), Head(rids)),
                    l, t, Tail(tileKeys), Tail(rids))

PreloadTiles(tileKeys) ==
  \E rids \in [1..2 -> 1..MaxCalls] :
    \E r \in {preloadTiles(Here, loader, now, tileKeys, rids)} :
       /\ r.valid
       /\ Len(r.calls) <= MaxCalls
       /\ cache' = Collect(r.cache)
       /\ lookups' = r.lookups
       /\ queue' = r.queue
       /\ net' = r.net
       /\ calls' = r.calls
       /\ lastOp' = "other"
       /\ UNCHANGED <<now, hung, recency, keyspace, terrain, ds, compared, bus, loader>>

\* the fetch of call c answers 200; isBuffer: the body is read as an
\* ArrayBuffer (neither JSON nor text).  executeRequest returns, the
\* executor resolves and runs its finally, _executeLoadTask continues.
FetchOk(c, isBuffer) ==
  /\ c \in 1..Len(calls)
  /\ calls[c].state = "fetching"
  /\ ~calls[c].aborted
  /\ \E rid \in NextRids(net, calls) :
       LET key == TileKeyToString(calls[c].tileKey)
           n1 == [net EXCEPT !.activeRequests = MapDelete(@, calls[c].rid)]
           cs1 == [calls EXCEPT ![c].state = IF isBuffer THEN "resolved" ELSE "rejected",
                                ![c].outcome = IF isBuffer THEN "tile" ELSE "invalid",
                                ![c].attempt = 0, ![c].rid = 0,
                                          ![c].fetches = 0]
           r == executorFinally(n1, cs1, rid)
           tile == [data |-> c, size |-> ResponseSize, lastAccessed |-> now]
           w == IF isBuffer THEN CacheSet(cache, key, tile) ELSE Done(cache)
       IN /\ isBuffer => (Has(cache, key) \/ FreeIds(cache.list) # {})
          /\ w.c.evictionCount <= MaxEvictions
          /\ cache' = Collect(w.c)
          /\ hung' = w.hung
          /\ net' = r.net
          /\ calls' = r.calls
          /\ queue' = queueRemove(queue, key)
  /\ lastOp' = "other"
  /\ UNCHANGED <<now, recency, keyspace, terrain, ds, compared, bus, lookups, loader>>

ErrorKinds == {"timeout", "network"}

\* the retry loop ended one attempt early
isFinalAttempt_OneShort(attempt, retries, isAborted, signalAborted) ==
  attempt >= retries - 1 \/ (isAborted /\ signalAborted)

\* executeRequest, the test that ends the retry loop after a failed attempt
isFinalAttempt(attempt, retries, isAborted, signalAborted) ==
  attempt = retries \/ (isAborted /\ signalAborted)

\* the wait grows by one retryDelay per attempt
backoffDelay_Linear(retryDelay, attempt) == retryDelay * (attempt + 1)

\* the argument of this.delay(...) after the failed attempt `attempt`
backoffDelay(retryDelay, attempt) == retryDelay * 2^attempt

\* the catch block of executeRequest for the attempt of call c in flight,
\* and what follows it: the loop breaks, executeRequest throws and the
\* executor rejects and runs its finally; or it goes on to its delay; or,
\* with no retryDelay, straight to the next pass
failAttempt(n, cs, c, kind, retries, rid) ==
  LET n1 == [n EXCEPT !.activeRequests = MapDelete(@, cs[c].rid)]
  IN IF isFinalAttempt(cs[c].attempt, retries, kind = "timeout", cs[c].signalAborted)
       THEN LET cs1 == [cs EXCEPT ![c].state = "rejected",
                                  ![c].outcome = kind,
                                  ![c].aborted = FALSE,
                                  ![c].attempt = 0, ![c].rid = 0,
                                  ![c].fetches = 0, ![c].delay = 0]
                r == executorFinally(n1, cs1, rid)
            IN [net |-> r.net, calls |-> r.calls, settled |-> TRUE]
       ELSE IF n.defaultRetryDelay > 0
              THEN [net |-> n1,
                    calls |-> [cs EXCEPT ![c].state = "backoff", ![c].aborted = FALSE,
                                         ![c].delay = backoffDelay(n.defaultRetryDelay,
                                                                   cs[c].attempt)],
                    settled |-> FALSE]
              ELSE LET r == startAttempt(n1, cs, c, cs[c].attempt + 1, cs[c].rid)
                   IN [net |-> r.net, calls |-> r.calls, settled |-> FALSE]

\* the fetch of call c fails: its controller was aborted (by the timeout,
\* by cancelAllRequests or by the caller's signal: an AbortError, kind
\* "timeout"), or the transport failed.  No code of the loader aborts the
\* signal it hands to the transport.
FetchFail(c, kind) ==
  /\ c \in 1..Len(calls)
  /\ calls[c].state = "fetching"
  /\ calls[c].aborted => kind = "timeout"
  /\ \E rid \in NextRids(net, calls) :
       LET r == failAttempt(net, calls, c, kind, loader.retryAttempts, rid)
       IN /\ net' = r.net
          /\ calls' = r.calls
          /\ queue' = IF r.settled
                        THEN queueRemove(queue, TileKeyToString(calls[c].tileKey))
                        ELSE queue
  /\ lastOp' = "other"
  /\ UNCHANGED <<loader>>
  /\ UNCHANGED <<cacheVars, sceneVars>>

\* the delay(retryDelay * 2^attempt) timer fires: the next pass of the loop
BackoffDone(c) ==
  /\ c \in 1..Len(calls)
  /\ calls[c].state = "backoff"
  /\ LET r == startAttempt(net, calls, c, calls[c].attempt + 1, calls[c].rid)
     IN /\ net' = r.net
        /\ calls' = r.calls
  /\ lastOp' = "other"
  /\ UNCHANGED <<queue, loader>>
  /\ UNCHANGED <<cacheVars, sceneVars>>

\* the loader variables of a behaviour that has no loader
LoaderIdle ==
  /\ queue = NewQueue(1)
  /\ loader = NewLoader(1, 0)
  /\ net = NewNet(1)
  /\ calls = <<>>
  /\ lastOp = "other"

\* new TileLoader(config): the cache, the queue, and the setters of the
\* NetworkManager singleton
LoaderInit ==
  /\ \E m \in 1..MaxConcurrent, r \in 0..MaxRetries :
       /\ queue = NewQueue(m)
       /\ loader = NewLoader(m, r)
       /\ net = NewNet(m)
  /\ cache = NewCache(MaxLimit, MaxMemLimit)
  /\ calls = <<>>
  /\ lastOp = "other"
  /\ now = 0
  /\ hung = FALSE
  /\ recency = <<>>
  /\ keyspace = {}
  /\ SceneIdle
  /\ lookups = NoLookups

LoaderNext ==
  \/ Initialize
  \/ Dispose
  \/ ClearCache
  \/ \E name \in Sources : AddDataSource(name)
  \/ \E name \in Sources : RemoveDataSource(name)
  \/ \E tileKey \in LoaderKeys, priority \in Priorities : LoadTile(tileKey, priority)
  \/ \E c \in 1..MaxCalls, isBuffer \in BOOLEAN : FetchOk(c, isBuffer)
  \/ \E c \in 1..MaxCalls, kind \in ErrorKinds : FetchFail(c, kind)
  \/ \E c \in 1..MaxCalls : BackoffDone(c)

SpecLoader == LoaderInit /\ [][LoaderNext]_vars

\* a loader whose tiles are all asked for through preloadTiles
PreloadNext ==
  \/ Initialize
  \/ Dispose
  \/ ClearCache
  \/ \E name \in Sources : AddDataSource(name)
  \/ \E name \in Sources : RemoveDataSource(name)
  \/ \E tileKeys \in {<<k>> : k \in LoaderKeys}
                      \cup {<<k1, k2>> : k1 \in LoaderKeys, k2 \in LoaderKeys} :
       PreloadTiles(tileKeys)
  \/ \E c \in 1..MaxCalls, isBuffer \in BOOLEAN : FetchOk(c, isBuffer)
  \/ \E c \in 1..MaxCalls, kind \in ErrorKinds : FetchFail(c, kind)
  \/ \E c \in 1..MaxCalls : BackoffDone(c)

SpecPreload == LoaderInit /\ [][PreloadNext]_vars

\* the keys handed to a TileCache used on its own: a caller passes
\* well-formed keys, or arbitrary strings (the empty string is a string)
CacheInit ==
  /\ \E ms \in 0..MaxLimit, mm \in 0..MaxMemLimit : cache = NewCache(ms, mm)
  /\ keyspace \in {{"a", "b", "c"}, {"", "a"}}
  /\ SceneIdle
  /\ lookups = NoLookups
  /\ now = 0
  /\ hung = FALSE
  /\ recency = <<>>
  /\ LoaderIdle

CacheNext ==
  \/ Tick
  \/ \E key \in keyspace : DoGet(key)
  \/ \E key \in keyspace, size \in 0..MaxTileSize, t \in 0..MaxTime :
       t <= now /\ DoSet(key, [data |-> key, size |-> size, lastAccessed |-> t])
  \/ \E key \in keyspace : DoRemove(key)
  \/ DoClear
  \/ DoEvictLRU
  \/ \E p \in Percentages : DoEvictPercentage(p)
  \/ \E maxAge \in 0..MaxTime : DoEvictByAge(maxAge)
  \/ \E n \in 0..MaxLimit : DoSetMaxSize(n)
  \/ \E m \in 0..MaxMemLimit : DoSetMaxMemory(m)

SpecCache == CacheInit /\ [][CacheNext]_vars

(***************************************************************************)
(* A LoadingQueue driven directly by its methods.                          *)
(***************************************************************************)
QueueKeys == LoaderKeys \cup {[x |-> 0, y |-> 1, z |-> 1, source |-> "s", layer |-> "l"]}

\* the number of the next enqueue call, as far as the pending tasks tell
NextStamp(q) ==
  LET S == {q.tasks[i].id : i \in 1..Len(q.tasks)}
             \cup {q.tasks[i].since : i \in 1..Len(q.tasks)}
  IN IF S = {} THEN 1 ELSE 1 + CHOOSE s \in S : \A t \in S : t <= s

QEnqueue(tileKey, priority) ==
  /\ NextStamp(queue) <= MaxStamp
  /\ queue' = enqueue(queue, [id |-> NextStamp(queue), tileKey |-> tileKey,
                              priority |-> priority, since |-> NextStamp(queue)])
  /\ UNCHANGED <<loader, net, calls, lastOp>>
  /\ UNCHANGED <<cacheVars, sceneVars>>

QDequeue ==
  /\ queue' = dequeue(queue).q
  /\ UNCHANGED <<loader, net, calls, lastOp>>
  /\ UNCHANGED <<cacheVars, sceneVars>>

QRemove(tileKey) ==
  /\ queue' = queueRemove(queue, TileKeyToString(tileKey))
  /\ UNCHANGED <<loader, net, calls, lastOp>>
  /\ UNCHANGED <<cacheVars, sceneVars>>

QClear ==
  /\ queue' = queueClear(queue)
  /\ UNCHANGED <<loader, net, calls, lastOp>>
  /\ UNCHANGED <<cacheVars, sceneVars>>

QueueInit ==
  /\ \E m \in 1..MaxConcurrent : queue = NewQueue(m)
  /\ loader = NewLoader(1, 0)
  /\ net = NewNet(1)
  /\ calls = <<>>
  /\ lastOp = "other"
  /\ cache = NewCache(MaxLimit, MaxMemLimit)
  /\ now = 0
  /\ hung = FALSE
  /\ recency = <<>>
  /\ keyspace = {}
  /\ SceneIdle
  /\ lookups = NoLookups

QueueNext ==
  \/ \E tileKey \in QueueKeys, priority \in Priorities : QEnqueue(tileKey, priority)
  \/ QDequeue
  \/ \E tileKey \in QueueKeys : QRemove(tileKey)
  \/ QClear

SpecQueue == QueueInit /\ [][QueueNext]_vars

(***************************************************************************)
(* A NetworkManager driven directly: its callers pass their own            *)
(* abortSignal and may abort it; retryDelay > 0.                           *)
(***************************************************************************)
NRequest(tileKey) ==
  LET c == Len(calls) + 1
      cs == Append(calls, NewCall(tileKey))
  IN /\ c <= MaxCalls
     /\ \E rid \in RidChoices(cs, c) :
          LET r == request(net, cs, c, rid)
          IN /\ net' = r.net
             /\ calls' = r.calls
     /\ UNCHANGED <<queue, loader, lastOp>>
     /\ UNCHANGED <<cacheVars, sceneVars>>

\* the caller aborts the signal of request c: the listener that the
\* attempt in flight (if any) has added aborts that attempt's controller
NAbort(c) ==
  /\ c \in 1..Len(calls)
  /\ Pending(calls[c])
  /\ ~calls[c].signalAborted
  /\ calls' = [calls EXCEPT ![c].signalAborted = TRUE,
                            ![c].aborted = @ \/ calls[c].state = "fetching"]
  /\ UNCHANGED <<queue, loader, net, lastOp>>
  /\ UNCHANGED <<cacheVars, sceneVars>>

\* the fetch of request c answers 200: executeRequest returns, the executor
\* resolves and runs its finally
NFetchOk(c) ==
  /\ c \in 1..Len(calls)
  /\ calls[c].state = "fetching"
  /\ ~calls[c].aborted
  /\ \E rid \in NextRids(net, calls) :
       LET n1 == [net EXCEPT !.activeRequests = MapDelete(@, calls[c].rid)]
           cs1 == [calls EXCEPT ![c].state = "resolved", ![c].outcome = "data",
                                ![c].attempt = 0, ![c].rid = 0, ![c].fetches = 0]
           r == executorFinally(n1, cs1, rid)
       IN /\ net' = r.net
          /\ calls' = r.calls
  /\ UNCHANGED <<queue, loader, lastOp>>
  /\ UNCHANGED <<cacheVars, sceneVars>>

NFetchFail(c, kind) ==
  /\ c \in 1..Len(calls)
  /\ calls[c].state = "fetching"
  /\ calls[c].aborted => kind = "timeout"
  /\ \E rid \in NextRids(net, calls) :
       LET r == failAttempt(net, calls, c, kind, loader.retryAttempts, rid)
       IN /\ net' = r.net
          /\ calls' = r.calls
  /\ UNCHANGED <<queue, loader, lastOp>>
  /\ UNCHANGED <<cacheVars, sceneVars>>

NCancelAll ==
  /\ LET r == cancelAllRequests(net, calls)
     IN /\ net' = r.net
        /\ calls' = r.calls
  /\ UNCHANGED <<queue, loader, lastOp>>
  /\ UNCHANGED <<cacheVars, sceneVars>>

\* the singleton with setMaxConcurrentRequests(m) and setDefaultRetries(r)
NetInit ==
  /\ \E m \in 1..MaxConcurrent, r \in 0..MaxRetries :
       /\ net = NewNet(m)
       /\ loader = NewLoader(m, r)
  /\ queue = NewQueue(1)
  /\ calls = <<>>
  /\ lastOp = "other"
  /\ cache = NewCache(MaxLimit, MaxMemLimit)
  /\ now = 0
  /\ hung = FALSE
  /\ recency = <<>>
  /\ keyspace = {}
  /\ SceneIdle
  /\ lookups = NoLookups

NetNext ==
  \/ \E tileKey \in LoaderKeys : NRequest(tileKey)
  \/ \E c \in 1..MaxCalls : NAbort(c)
  \/ \E c \in 1..MaxCalls : NFetchOk(c)
  \/ \E c \in 1..MaxCalls, kind \in ErrorKinds : NFetchFail(c, kind)
  \/ \E c \in 1..MaxCalls : BackoffDone(c)
  \/ NCancelAll

SpecNet == NetInit /\ [][NetNext]_vars

(***************************************************************************)
(* A NetworkManager after setDefaultRetries(r) and setDefaultRetryDelay(d) *)
(* for the numbers of retries and the delays that tell the waits apart.    *)
(***************************************************************************)
RetryInit ==
  /\ \E r \in 0..MaxNetRetries, d \in 0..MaxRetryDelay :
       /\ net = [NewNet(1) EXCEPT !.defaultRetryDelay = d]
       /\ loader = NewLoader(1, r)
  /\ queue = NewQueue(1)
  /\ calls = <<>>
  /\ lastOp = "other"
  /\ cache = NewCache(MaxLimit, MaxMemLimit)
  /\ now = 0
  /\ hung = FALSE
  /\ recency = <<>>
  /\ keyspace = {}
  /\ SceneIdle
  /\ lookups = NoLookups

SpecRetry == RetryInit /\ [][NetNext]_vars

(***************************************************************************)
(* A TileCache whose callers look tiles up and read its statistics.        *)
(***************************************************************************)
SGet(key) ==
  /\ ~hung
  /\ lookups.hits + lookups.misses < MaxGets
  /\ cache' = Collect(CacheGet(cache, key, now).c)
  /\ recency' = IF Has(cache, key) THEN Touch(recency, key) ELSE recency
  /\ lookups' = Looked(lookups, CacheGet(cache, key, now).hit)
  /\ UNCHANGED <<now, hung, keyspace, terrain, ds, compared, bus>>
  /\ UNCHANGED loaderVars

SSet(key, tile) ==
  /\ ~hung
  /\ Has(cache, key) \/ FreeIds(cache.list) # {}
  /\ LET r == CacheSet(cache, key, tile)
     IN /\ r.c.evictionCount <= MaxEvictions
        /\ cache' = Collect(r.c)
        /\ hung' = r.hung
        /\ recency' = Prune(Touch(recency, key), r.c)
  /\ UNCHANGED <<now, keyspace, terrain, ds, compared, bus, lookups>>
  /\ UNCHANGED loaderVars

SRemove(key) ==
  /\ ~hung
  /\ cache' = Collect(CacheRemove(cache, key))
  /\ recency' = Prune(recency, CacheRemove(cache, key))
  /\ UNCHANGED <<now, hung, keyspace, terrain, ds, compared, bus, lookups>>
  /\ UNCHANGED loaderVars

SClear ==
  /\ ~hung
  /\ cache' = Collect(CacheClear(cache))
  /\ recency' = <<>>
  /\ UNCHANGED <<now, hung, keyspace, terrain, ds, compared, bus, lookups>>
  /\ UNCHANGED loaderVars

StatsInit ==
  /\ \E ms \in 1..MaxLimit : cache = NewCache(ms, MaxMemLimit)
  /\ keyspace = {"a", "b"}
  /\ SceneIdle
  /\ lookups = NoLookups
  /\ now = 0
  /\ hung = FALSE
  /\ recency = <<>>
  /\ LoaderIdle

StatsNext ==
  \/ \E key \in keyspace : SGet(key)
  \/ \E key \in keyspace, size \in 0..MaxTileSize :
       SSet(key, [data |-> key, size |-> size, lastAccessed |-> now])
  \/ \E key \in keyspace : SRemove(key)
  \/ SClear

SpecStats == StatsInit /\ [][StatsNext]_vars

(***************************************************************************)
(* The terrain TileLoader (src/terrain/TileLoader.ts).                     *)
(*                                                                         *)
(* A tile key `${x}_${y}_${z}` is written as the coordinates [x, y, z] it  *)
(* is built from.  _activeTiles is the sequence of its keys in insertion   *)
(* order (the order forEach visits them in); _tileCache is the set of its  *)
(* keys, since _clearOldCache sorts the entries before it reads them.  The *)
(* meshes, materials and textures of a tile are left out.                  *)
(*                                                                         *)
(* A call of _loadTile that reached `await this._createTile` is a record   *)
(* of loads: the tile, and what its caller does once the call returns: the *)
(* tiles it goes on to load one by one (rest) and whether it is            *)
(* initialize(), which then sets _isInitialized (init).  A call of         *)
(* _preloadNearbyTiles that started preloads is a record of batches: the   *)
(* tiles whose _preloadTile has not settled yet.  An await on a call that  *)
(* returned without waiting is continued in the same step.                 *)
(* initialLoads counts the calls of _loadInitialTiles since construction   *)
(* or the last dispose(); it is not a field of the class.                  *)
(***************************************************************************)
TilesAt(z) == {[x |-> x, y |-> y, z |-> z] : x \in 0..(2^z - 1), y \in 0..(2^z - 1)}

NewTerrain(maxCacheSize, maxLOD) ==
  [ isInitialized |-> FALSE, activeTiles |-> <<>>, tileCache |-> {},
    maxCacheSize |-> maxCacheSize, currentLOD |-> 0, maxLOD |-> maxLOD,
    loadingTiles |-> {}, failedTiles |-> {}, preloadingTiles |-> {},
    loads |-> EmptyBag, batches |-> EmptyBag, initialLoads |-> 0 ]

TileSet(seq) == {seq[i] : i \in DOMAIN seq}

\* Map.set on _activeTiles: a key already present keeps its place
activeSet(seq, tile) == IF tile \in TileSet(seq) THEN seq ELSE Append(seq, tile)

\* _loadTile up to its return or its first await
loadTileStart(t, tile) ==
  IF tile \in TileSet(t.activeTiles) \/ tile \in t.loadingTiles \/ tile \in t.failedTiles
  THEN [t |-> t, awaits |-> FALSE]
  ELSE IF tile \in t.tileCache
  THEN [t |-> [t EXCEPT !.activeTiles = activeSet(@, tile), !.tileCache = @ \ {tile}],
        awaits |-> FALSE]
  ELSE [t |-> [t EXCEPT !.loadingTiles = @ \cup {tile}], awaits |-> TRUE]

\* `for (const tile of tiles) await this._loadTile(...)` from the tile at the
\* head of rest up to the first call that waits, or to the end of the loop
RECURSIVE awaitTiles(_, _, _)
awaitTiles(t, rest, init) ==
  IF rest = <<>>
  THEN IF init THEN [t EXCEPT !.isInitialized = TRUE] ELSE t
  ELSE LET r == loadTileStart(t, Head(rest)) IN
       IF r.awaits
       THEN [r.t EXCEPT !.loads = @ (+) SetToBag({[tile |-> Head(rest),
                                                   rest |-> Tail(rest), init |-> init]})]
       ELSE awaitTiles(r.t, Tail(rest), init)

loadInitialTiles(t, init) ==
  awaitTiles(t, << [x |-> 0, y |-> 0, z |-> 1], [x |-> 1, y |-> 0, z |-> 1],
                   [x |-> 0, y |-> 1, z |-> 1], [x |-> 1, y |-> 1, z |-> 1] >>, init)

initialize(t) ==
  IF t.isInitialized THEN t
  ELSE loadInitialTiles([t EXCEPT !.initialLoads = @ + 1], TRUE)

\* _loadTile from the return of _createTile (tileData or null) to its end,
\* and then the caller that awaited it
loadTileDone(t, load, ok) ==
  LET t1 == IF ok THEN [t EXCEPT !.activeTiles = activeSet(@, load.tile)]
                  ELSE [t EXCEPT !.failedTiles = @ \cup {load.tile}]
      t2 == [t1 EXCEPT !.loadingTiles = @ \ {load.tile},
                       !.loads = @ (-) SetToBag({load})]
  IN awaitTiles(t2, load.rest, load.init)

dispose_KeepFailed(t) ==
  [t EXCEPT !.activeTiles = <<>>, !.tileCache = {}, !.loadingTiles = {},
            !.preloadingTiles = {}, !.isInitialized = FALSE,
            !.initialLoads = 0]

dispose(t) ==
  [t EXCEPT !.activeTiles = <<>>, !.tileCache = {}, !.loadingTiles = {},
            !.failedTiles = {}, !.preloadingTiles = {}, !.isInitialized = FALSE,
            !.initialLoads = 0]

\* Math.round((active + cached) * 256 * 256 * 4 / (1024 * 1024))
getLoadingStats(t) ==
  [ active |-> Len(t.activeTiles), cached |-> Cardinality(t.tileCache),
    loading |-> Cardinality(t.loadingTiles), failed |-> Cardinality(t.failedTiles),
    preloading |-> Cardinality(t.preloadingTiles),
    memoryUsage |-> (Len(t.activeTiles) + Cardinality(t.tileCache) + 2) \div 4 ]

\* the comparator of _clearOldCache: the higher LOD first; the meshes all
\* sit at the origin, so the distances tie; then keyA.localeCompare(keyB)
\* (keys of one-digit coordinates)
sortsBefore(a, b) ==
  \/ a.z > b.z
  \/ /\ a.z = b.z
     /\ \/ a.x < b.x
        \/ a.x = b.x /\ a.y < b.y

clearOldCache(t) ==
  LET targetCacheSize == (t.maxCacheSize * 3) \div 4
      place(tile) == Cardinality({o \in t.tileCache : sortsBefore(o, tile)})
  IN IF Cardinality(t.tileCache) <= targetCacheSize THEN t
     ELSE [t EXCEPT !.tileCache = {tile \in @ : place(tile) < targetCacheSize}]

\* the body of tilesToRemove.forEach for one key
cullTile(t, tile) ==
  LET t1 == [t EXCEPT !.activeTiles = SelectSeq(@, LAMBDA e : e # tile)]
      t2 == clearOldCache(t1)
  IN IF Cardinality(t1.tileCache) < t1.maxCacheSize
     THEN [t1 EXCEPT !.tileCache = @ \cup {tile}]
     ELSE IF Cardinality(t2.tileCache) < t2.maxCacheSize
     THEN [t2 EXCEPT !.tileCache = @ \cup {tile}]
     ELSE t2

RECURSIVE cullEach(_, _)
cullEach(t, tilesToRemove) ==
  IF tilesToRemove = <<>> THEN t
  ELSE cullEach(cullTile(t, Head(tilesToRemove)), Tail(tilesToRemove))

\* near: the tiles whose centre is within maxDistance of the camera
cullDistantTiles(t, near) ==
  cullEach(t, SelectSeq(t.activeTiles,
                        LAMBDA tile : tile \notin near \/ tile.z # t.currentLOD))

Larger(a, b) == IF a >= b THEN a ELSE b

\* the tiles of the square of the given half width around (centerX, centerY),
\* x in the outer loop and y in the inner one, that lie inside the world
gridAround(centerX, centerY, lod, halfWidth) ==
  LET side == 2 * halfWidth + 1
      all == [i \in 1..(side * side) |->
                [x |-> centerX - halfWidth + ((i - 1) \div side),
                 y |-> centerY - halfWidth + ((i - 1) % side), z |-> lod]]
  IN SelectSeq(all, LAMBDA c : c.x >= 0 /\ c.x < 2^lod /\ c.y >= 0 /\ c.y < 2^lod)

calculateVisibleTiles(centerX, centerY, lod) ==
  gridAround(centerX, centerY, lod, Larger(1, 8 \div (2^Larger(0, lod - 8))))

\* visibleTiles.forEach(async tileCoord => await this._loadTile(...)): every
\* call runs to its first await before the next one starts
RECURSIVE loadEach(_, _)
loadEach(t, tiles) ==
  IF tiles = <<>> THEN t
  ELSE loadEach(awaitTiles(t, <<Head(tiles)>>, FALSE), Tail(tiles))

updateVisibleTiles(t, camera) ==
  cullDistantTiles(loadEach(t, calculateVisibleTiles(camera.x, camera.y, t.currentLOD)),
                   camera.near)

\* the two loops of _preloadNearbyTiles (preloadRadius = 2, at most 4
\* preloads per call); started: the tiles given to _preloadTile so far.  _preloadTile runs to its first await at once.
RECURSIVE preloadEach(_, _, _)
preloadEach(t, candidates, started) ==
  IF candidates = <<>> \/ Cardinality(started) >= 4
  THEN IF started = {} THEN t
       ELSE [t EXCEPT !.batches = @ (+) SetToBag({started})]
  ELSE LET tile == Head(candidates) IN
       IF \/ tile \in TileSet(t.activeTiles) \/ tile \in t.tileCache
          \/ tile \in t.loadingTiles \/ tile \in t.failedTiles
          \/ tile \in t.preloadingTiles
       THEN preloadEach(t, Tail(candidates), started)
       ELSE preloadEach([t EXCEPT !.preloadingTiles = @ \cup {tile}],
                        Tail(candidates), started \cup {tile})

preloadNearbyTiles(t, centerX, centerY, currentLOD) ==
  preloadEach(t, SelectSeq(gridAround(centerX, centerY, currentLOD, 2),
                           LAMBDA c : ~(c.x = centerX /\ c.y = centerY)), {})

\* camera: the required LOD, the tile under the camera and the tiles near it
update(t, camera) ==
  IF ~t.isInitialized THEN t
  ELSE IF camera.lod = t.currentLOD THEN t
  ELSE LET t1 == [t EXCEPT !.currentLOD = camera.lod] IN
       preloadNearbyTiles(updateVisibleTiles(t1, camera), camera.x, camera.y, t1.currentLOD)

\* bounds: the rectangle minX..maxX, minY..maxY of tiles of level z
calculateTilesInBounds(bounds) ==
  LET w == bounds.maxX - bounds.minX + 1
      h == bounds.maxY - bounds.minY + 1
  IN [i \in 1..(w * h) |-> [x |-> bounds.minX + ((i - 1) \div h),
                             y |-> bounds.minY + ((i - 1) % h), z |-> bounds.level]]

loadTilesInBounds(t, bounds) == awaitTiles(t, calculateTilesInBounds(bounds), FALSE)

\* _preloadTile from the return of _createTile to its end
preloadTileDone(t, batch, tile, ok) ==
  LET t1 == IF ok /\ tile \in t.preloadingTiles
            THEN [t EXCEPT !.tileCache = @ \cup {tile}] ELSE t
  IN [t1 EXCEPT !.preloadingTiles = @ \ {tile},
                !.batches = (@ (-) SetToBag({batch})) (+) SetToBag({batch \ {tile}})]

\* the callback of Promise.allSettled(preloadPromises) of one batch
cleanupPreloadingTiles(t, batch) ==
  [t EXCEPT !.preloadingTiles =
              {k \in @ : k \notin TileSet(t.activeTiles) /\ k \notin t.tileCache},
            !.batches = @ (-) SetToBag({batch})]

\* the positions of the camera: the LOD its altitude asks for, the tile it
\* is over, and whether it is within maxDistance of that tile's centre (up
\* to LOD 2 no other tile can be)
Cameras(t) ==
  UNION {{[lod |-> c.z, x |-> c.x, y |-> c.y, near |-> near] : near \in {{}, {c}}} :
         c \in UNION {TilesAt(lod) : lod \in 1..t.maxLOD}}

Rectangles ==
  {b \in [level : 1..TerrainMaxLOD, minX : 0..MaxBoundsX, maxX : 0..MaxBoundsX,
              minY : 0..1, maxY : 0..1] :
     /\ b.minX <= b.maxX
     /\ b.minY <= b.maxY
     /\ (b.maxX - b.minX + 1) * (b.maxY - b.minY + 1) <= MaxBoundsTiles}

\* the caps on the loads and preloads under way, on the failed tiles and on
\* initialLoads
TerrainBounded(t) ==
  /\ BagCardinality(t.loads) <= MaxTerrainLoads
  /\ Cardinality(UNION BagToSet(t.batches)) <= MaxTerrainPreloads
  /\ Cardinality(t.failedTiles) <= MaxFailedTiles
  /\ t.initialLoads <= MaxInitialLoads

TInitialize ==
  /\ terrain' = initialize(terrain)
  /\ TerrainBounded(terrain')
  /\ UNCHANGED <<cacheVars, loaderVars, ds, compared, bus>>

TDispose ==
  /\ terrain' = dispose(terrain)
  /\ UNCHANGED <<cacheVars, loaderVars, ds, compared, bus>>

TUpdate(camera) ==
  /\ terrain' = update(terrain, camera)
  /\ TerrainBounded(terrain')
  /\ UNCHANGED <<cacheVars, loaderVars, ds, compared, bus>>

TLoadTilesInBounds(bounds) ==
  /\ terrain' = loadTilesInBounds(terrain, bounds)
  /\ TerrainBounded(terrain')
  /\ UNCHANGED <<cacheVars, loaderVars, ds, compared, bus>>

\* the texture of a tile being loaded arrives, fails or times out, and
\* _createTile returns the tile (ok) or, after an exception, null
TLoadDone(load, ok) ==
  /\ BagIn(load, terrain.loads)
  /\ terrain' = loadTileDone(terrain, load, ok)
  /\ TerrainBounded(terrain')
  /\ UNCHANGED <<cacheVars, loaderVars, ds, compared, bus>>

TPreloadDone(batch, tile, ok) ==
  /\ BagIn(batch, terrain.batches)
  /\ tile \in batch
  /\ terrain' = preloadTileDone(terrain, batch, tile, ok)
  /\ UNCHANGED <<cacheVars, loaderVars, ds, compared, bus>>

\* every preload of the batch has settled and its 100 ms timer has fired
TCleanup(batch) ==
  /\ BagIn(batch, terrain.batches)
  /\ batch = {}
  /\ terrain' = cleanupPreloadingTiles(terrain, batch)
  /\ UNCHANGED <<cacheVars, loaderVars, ds, compared, bus>>

TerrainInit ==
  /\ \E c \in 1..TerrainMaxCache, l \in 1..TerrainMaxLOD : terrain = NewTerrain(c, l)
  /\ ds = "none"
  /\ compared = "none"
  /\ bus = "none"
  /\ cache = NewCache(MaxLimit, MaxMemLimit)
  /\ now = 0
  /\ hung = FALSE
  /\ recency = <<>>
  /\ keyspace = {}
  /\ lookups = NoLookups
  /\ LoaderIdle

TerrainNext ==
  \/ TInitialize
  \/ TDispose
  \/ \E camera \in Cameras(terrain) : TUpdate(camera)
  \/ \E bounds \in Rectangles : TLoadTilesInBounds(bounds)
  \/ \E load \in BagToSet(terrain.loads), ok \in BOOLEAN : TLoadDone(load, ok)
  \/ \E batch \in BagToSet(terrain.batches) :
       \E tile \in batch, ok \in BOOLEAN : TPreloadDone(batch, tile, ok)
  \/ \E batch \in BagToSet(terrain.batches) : TCleanup(batch)

SpecTerrain == TerrainInit /\ [][TerrainNext]_vars

(***************************************************************************)
(* Data sources (src/data/DataSource.ts).  Strings are strings; a          *)
(* DataSource object is the record of the fields getUrl reads and of its   *)
(* class.  ds holds the outcome of the last DataSourceFactory.create call  *)
(* (the source or the message of the error thrown) and of the last getUrl  *)
(* call on that source.                                                    *)
(***************************************************************************)
\* String.prototype.indexOf, counted from 1; 0 when pat does not occur
indexOf(s, pat) ==
  LET hits == {i \in 1..(Len(s) - Len(pat) + 1) : SubSeq(s, i, i + Len(pat) - 1) = pat}
  IN IF hits = {} THEN 0 ELSE CHOOSE i \in hits : \A j \in hits : i <= j

\* String.prototype.replace with a string pattern: the first occurrence only
replace(s, pat, by) ==
  LET i == indexOf(s, pat)
  IN IF i = 0 THEN s
     ELSE SubSeq(s, 1, i - 1) \o by \o SubSeq(s, i + Len(pat), Len(s))

UpperCase == "ABCDEFGHIJKLMNOPQRSTUVWXYZ"
LowerCase == "abcdefghijklmnopqrstuvwxyz"

LowerOf ==
  [c \in {SubSeq(UpperCase, i, i) : i \in 1..Len(UpperCase)} |->
     SubSeq(LowerCase, indexOf(UpperCase, c), indexOf(UpperCase, c))]

RECURSIVE toLowerCase(_)
toLowerCase(s) ==
  IF s = "" THEN ""
  ELSE (IF SubSeq(s, 1, 1) \in DOMAIN LowerOf THEN LowerOf[SubSeq(s, 1, 1)]
                                             ELSE SubSeq(s, 1, 1))
         \o toLowerCase(Tail(s))

\* URLSearchParams.toString() on one name or value: letters, digits and
\* * - . _ stay, a space becomes +, any other byte is written %XX
Unreserved ==
  LET all == UpperCase \o LowerCase \o "0123456789*-._"
  IN {SubSeq(all, i, i) : i \in 1..Len(all)}

PercentCodes ==
  [c \in {":", "/", "&", "=", "?", "{", "}", "%"} |->
     CASE c = ":" -> "%3A" [] c = "/" -> "%2F" [] c = "&" -> "%26" [] c = "=" -> "%3D"
       [] c = "?" -> "%3F" [] c = "{" -> "%7B" [] c = "}" -> "%7D" [] c = "%" -> "%25"]

RECURSIVE formEncode(_)
formEncode(s) ==
  IF s = "" THEN ""
  ELSE LET c == SubSeq(s, 1, 1)
       IN (IF c \in Unreserved THEN c
           ELSE IF c = " " THEN "+"
           ELSE PercentCodes[c])
            \o formEncode(Tail(s))

\* new URLSearchParams({...}).toString(): the pairs in the order written
RECURSIVE searchParams(_)
searchParams(pairs) ==
  IF pairs = <<>> THEN ""
  ELSE formEncode(pairs[1][1]) \o "=" \o formEncode(pairs[1][2])
         \o (IF Len(pairs) = 1 THEN "" ELSE "&" \o searchParams(Tail(pairs)))

selectSubdomain(source, tileKey) ==
  IF Len(source.subdomains) = 0 THEN ""
  ELSE source.subdomains[((tileKey.x + tileKey.y + tileKey.z) % Len(source.subdomains)) + 1]

replaceUrlPlaceholders(source, template, tileKey) ==
  LET subdomain == selectSubdomain(source, tileKey)
  IN replace(replace(replace(replace(template, "{x}", ToString(tileKey.x)),
                             "{y}", ToString(tileKey.y)),
                     "{z}", ToString(tileKey.z)),
             "{s}", subdomain)

xyzGetUrl(source, tileKey) == replaceUrlPlaceholders(source, source.urlTemplate, tileKey)

tmsGetUrl_NoFlip(source, tileKey) ==
  replaceUrlPlaceholders(source, source.urlTemplate, tileKey)

tmsGetUrl(source, tileKey) ==
  LET tmsY == 2^tileKey.z - 1 - tileKey.y
  IN replaceUrlPlaceholders(source, source.urlTemplate, [tileKey EXCEPT !.y = tmsY])

wmtsGetUrl_RowFromX(source, tileKey) ==
  source.urlTemplate \o "?" \o
    searchParams(<< <<"SERVICE", "WMTS">>, <<"REQUEST", "GetTile">>,
                    <<"VERSION", "1.0.0">>, <<"LAYER", source.layer>>,
                    <<"STYLE", source.style>>, <<"TILEMATRIXSET", source.matrixSet>>,
                    <<"TILEMATRIX", ToString(tileKey.z)>>,
                    <<"TILEROW", ToString(tileKey.x)>>,
                    <<"TILECOL", ToString(tileKey.y)>>,
                    <<"FORMAT", source.format>> >>)

wmtsGetUrl(source, tileKey) ==
  source.urlTemplate \o "?" \o
    searchParams(<< <<"SERVICE", "WMTS">>, <<"REQUEST", "GetTile">>,
                    <<"VERSION", "1.0.0">>, <<"LAYER", source.layer>>,
                    <<"STYLE", source.style>>, <<"TILEMATRIXSET", source.matrixSet>>,
                    <<"TILEMATRIX", ToString(tileKey.z)>>,
                    <<"TILEROW", ToString(tileKey.y)>>,
                    <<"TILECOL", ToString(tileKey.x)>>,
                    <<"FORMAT", source.format>> >>)

\* the getUrl of the class of the source
getUrl(source, tileKey) ==
  CASE source.class = "XYZDataSource" -> xyzGetUrl(source, tileKey)
    [] source.class = "TMSDataSource" -> tmsGetUrl(source, tileKey)
    [] source.class = "WMTSDataSource" -> wmtsGetUrl(source, tileKey)

\* the constructors: DataSource, and what WMTSDataSource adds (a config
\* without style or matrixSet has them "")
NewDataSource(class, config) ==
  [ class |-> class, type |-> config.type, urlTemplate |-> config.url,
    format |-> config.format, subdomains |-> config.subdomains,
    layer |-> config.layer,
    style |-> IF config.style = "" THEN "default" ELSE config.style,
    matrixSet |-> IF config.matrixSet = "" THEN "EPSG:3857" ELSE config.matrixSet ]

NoSource == [class |-> "none"]

create_DefaultXYZ(config) ==
  LET type == toLowerCase(config.type)
  IN CASE type = "tms" -> [source |-> NewDataSource("TMSDataSource", config), error |-> ""]
       [] type = "wmts" -> [source |-> NewDataSource("WMTSDataSource", config), error |-> ""]
       [] OTHER -> [source |-> NewDataSource("XYZDataSource", config), error |-> ""]

\* DataSourceFactory.create: the source returned, or the message of the Error thrown
create(config) ==
  LET type == toLowerCase(config.type)
  IN CASE type = "xyz" -> [source |-> NewDataSource("XYZDataSource", config), error |-> ""]
       [] type = "tms" -> [source |-> NewDataSource("TMSDataSource", config), error |-> ""]
       [] type = "wmts" -> [source |-> NewDataSource("WMTSDataSource", config), error |-> ""]
       [] OTHER -> [source |-> NoSource,
                    error |-> "Unsupported data source type: " \o config.type]

\* the configs handed to DataSourceFactory.create
Configs ==
  [type : {"xyz", "tms", "wmts", "Tms", "WMTS", "wms", ""},
   url : {"/{z}/{x}/{y}", "//{s}.t/{x}/{y}/{z}"},
   format : {"image/png"},
   subdomains : {<<>>, <<"a", "b">>},
   layer : {"world", "a b"},
   style : {""}, matrixSet : {""}]

\* the well-formed keys up to zoom MaxZoom, and the two keys of the scenarios
SourceKeys ==
  UNION {TilesAt(z) : z \in 0..MaxZoom}
    \cup {[x |-> 1, y |-> 1, z |-> 4], [x |-> 3, y |-> 2, z |-> 5]}

\* ds after DataSourceFactory.create(config) has returned or thrown
Created(config) ==
  LET r == create(config)
  IN [created |-> TRUE, source |-> r.source, error |-> r.error, type |-> config.type,
      asked |-> FALSE, tileKey |-> [x |-> 0, y |-> 0, z |-> 0], url |-> ""]

DCreate(config) ==
  /\ ds' = Created(config)
  /\ UNCHANGED <<cacheVars, loaderVars, terrain, compared, bus>>

DGetUrl(tileKey) ==
  /\ ds.source # NoSource
  /\ ds' = [ds EXCEPT !.asked = TRUE, !.tileKey = tileKey,
                      !.url = getUrl(ds.source, tileKey)]
  /\ UNCHANGED <<cacheVars, loaderVars, terrain, compared, bus>>

\* no create call has been made yet
SourceInit ==
  /\ ds = [created |-> FALSE, source |-> NoSource, error |-> "", type |-> "",
           asked |-> FALSE,
           tileKey |-> [x |-> 0, y |-> 0, z |-> 0], url |-> ""]
  /\ terrain = "none"
  /\ compared = "none"
  /\ bus = "none"
  /\ cache = NewCache(MaxLimit, MaxMemLimit)
  /\ now = 0
  /\ hung = FALSE
  /\ recency = <<>>
  /\ keyspace = {}
  /\ lookups = NoLookups
  /\ LoaderIdle

SourceNext ==
  \/ \E config \in Configs : DCreate(config)
  \/ \E tileKey \in SourceKeys : DGetUrl(tileKey)

SpecSource == SourceInit /\ [][SourceNext]_vars

(***************************************************************************)
(* TileKeyUtils: equals and toString applied to two tile keys.  source and *)
(* layer are strings the caller chooses (TileKey sets no format for them). *)
(***************************************************************************)
\* TileKeyUtils.equals
TileKeyEquals(a, b) ==
  a.x = b.x /\ a.y = b.y /\ a.z = b.z /\ a.source = b.source /\ a.layer = b.layer

ComparedKeys ==
  [x : 0..MaxKeyCoord \cup {11}, y : 0..MaxKeyCoord, z : 0..MaxKeyCoord,
   source : {"s", "s:l", ""}, layer : {"l", "l:l", ""}]

\* the caller applies equals and toString to its two keys
KCompare ==
  /\ ~compared.called
  /\ compared' = [compared EXCEPT !.called = TRUE,
                                  !.equals = TileKeyEquals(compared.a, compared.b),
                                  !.strA = TileKeyToString(compared.a),
                                  !.strB = TileKeyToString(compared.b)]
  /\ UNCHANGED <<cacheVars, loaderVars, terrain, ds, bus>>

\* a caller holds two tile keys
KeysInit ==
  /\ \E a \in ComparedKeys, b \in ComparedKeys :
       compared = [called |-> FALSE, a |-> a, b |-> b, equals |-> FALSE,
                   strA |-> "", strB |-> ""]
  /\ terrain = "none"
  /\ ds = "none"
  /\ bus = "none"
  /\ cache = NewCache(MaxLimit, MaxMemLimit)
  /\ now = 0
  /\ hung = FALSE
  /\ recency = <<>>
  /\ keyspace = {}
  /\ lookups = NoLookups
  /\ LoaderIdle

KeysNext == KCompare

SpecKeys == KeysInit /\ [][KeysNext]_vars

(***************************************************************************)
(* EventBus (src/src/utils/EventSystem.ts).  events maps an event name to  *)
(* its array of callbacks.  A callback is a function: id names it, effect  *)
(* is what it does when called: it returns, it throws, or it calls the     *)
(* unsubscribe() of the subscription of the callback `target` (its own or  *)
(* another one's).  publish is synchronous: one step delivers to the whole *)
(* array.  last records the publish just made: the callbacks subscribed    *)
(* when it was called and the callbacks it invoked, in order.  With the    *)
(* one event name of the model clear() is the step unsubscribeAll makes.   *)
(***************************************************************************)
Callbacks ==
  [id : 1..MaxCallbacks, effect : {"return", "throw"}, target : {0}]
    \cup [id : 1..MaxCallbacks, effect : {"unsubscribe"}, target : 1..MaxCallbacks]

NoPublish == [published |-> FALSE, subscribed |-> <<>>, invoked |-> <<>>]

\* this.events.get(eventName), the empty array standing for undefined
callbacksOf(events, eventName) ==
  IF eventName \in DOMAIN events THEN events[eventName] ELSE <<>>

subscribe(events, eventName, callback) ==
  MapSet(events, eventName, Append(callbacksOf(events, eventName), callback))

\* the unsubscribe() of the subscription of the callback `id` to eventName
unsubscribe(events, eventName, id) ==
  IF eventName \notin DOMAIN events THEN events
  ELSE LET callbacks == events[eventName]
           I == {i \in 1..Len(callbacks) : callbacks[i].id = id}
           index == IF I = {} THEN 0 ELSE CHOOSE i \in I : \A j \in I : i <= j
           spliced == IF index > 0 THEN RemoveAt(callbacks, index) ELSE callbacks
       IN IF Len(spliced) = 0 THEN MapDelete(events, eventName)
          ELSE MapSet(events, eventName, spliced)

\* callbacks.forEach(...) of publish from index k on (counted from 1): len is
\* the length of the array when forEach was called, the array is read as it
\* is now, and an index it no longer has is passed over.  An error thrown by
\* a callback is caught and logged.
RECURSIVE forEach(_, _, _, _, _)
forEach(events, eventName, k, len, invoked) ==
  LET callbacks == callbacksOf(events, eventName)
  IN IF k > len THEN [events |-> events, invoked |-> invoked]
     ELSE IF k > Len(callbacks) THEN forEach(events, eventName, k + 1, len, invoked)
     ELSE forEach(IF callbacks[k].effect = "unsubscribe"
                    THEN unsubscribe(events, eventName, callbacks[k].target)
                    ELSE events,
                  eventName, k + 1, len, Append(invoked, callbacks[k].id))

publish(events, eventName) ==
  forEach(events, eventName, 1, Len(callbacksOf(events, eventName)), <<>>)

\* Each function is subscribed to the event at most once, and the array holds
\* at most MaxCallbacks of them.
BSubscribe(eventName, callback) ==
  /\ Len(callbacksOf(bus.events, eventName)) < MaxCallbacks
  /\ \A i \in 1..Len(callbacksOf(bus.events, eventName)) :
       callbacksOf(bus.events, eventName)[i].id # callback.id
  /\ bus' = [events |-> subscribe(bus.events, eventName, callback), last |-> NoPublish]
  /\ UNCHANGED <<cacheVars, loaderVars, terrain, ds, compared>>

BUnsubscribe(eventName, id) ==
  /\ bus' = [events |-> unsubscribe(bus.events, eventName, id), last |-> NoPublish]
  /\ UNCHANGED <<cacheVars, loaderVars, terrain, ds, compared>>

BPublish(eventName) ==
  /\ \E r \in {publish(bus.events, eventName)} :
       bus' = [events |-> r.events,
               last |-> [published |-> TRUE,
                         subscribed |-> [i \in 1..Len(callbacksOf(bus.events, eventName)) |->
                                           callbacksOf(bus.events, eventName)[i].id],
                         invoked |-> r.invoked]]
  /\ UNCHANGED <<cacheVars, loaderVars, terrain, ds, compared>>

BUnsubscribeAll(eventName) ==
  /\ bus' = [events |-> MapDelete(bus.events, eventName), last |-> NoPublish]
  /\ UNCHANGED <<cacheVars, loaderVars, terrain, ds, compared>>

\* EventBus.getInstance() for the first time
BusInit ==
  /\ bus = [events |-> <<>>, last |-> NoPublish]
  /\ terrain = "none"
  /\ ds = "none"
  /\ compared = "none"
  /\ cache = NewCache(MaxLimit, MaxMemLimit)
  /\ now = 0
  /\ hung = FALSE
  /\ recency = <<>>
  /\ keyspace = {}
  /\ lookups = NoLookups
  /\ LoaderIdle

BusNext ==
  \/ \E callback \in Callbacks : BSubscribe("e", callback)
  \/ \E id \in 1..MaxCallbacks : BUnsubscribe("e", id)
  \/ BPublish("e")
  \/ BUnsubscribeAll("e")

SpecBus == BusInit /\ [][BusNext]_vars

(***************************************************************************)
(* Properties                                                              *)
(***************************************************************************)

\* C1: whenever a mutating call of TileCache has returned, the cache holds
\* at most maxSize tiles and at most maxMemory bytes (a call that never
\* returns has no state after it).
CacheBounds ==
  ~hung => /\ cache.currentSize <= cache.maxSize
           /\ cache.currentMemory <= cache.maxMemory

\* an eviction has taken place and left the cache full to its count limit
CacheBoundsWitness ==
  /\ ~hung
  /\ cache.evictionCount > 0
  /\ cache.currentSize = cache.maxSize
  /\ cache.currentMemory = cache.maxMemory
  /\ cache.currentSize > 0

\* C2: calls of loadTile for one key made before the first has settled share
\* one network request: never are two requests for one key under way.
DedupOneFetch ==
  \A c, d \in 1..Len(calls) :
    (c < d /\ TileKeyToString(calls[c].tileKey) = TileKeyToString(calls[d].tileKey))
      => ~(Pending(calls[c]) /\ Pending(calls[d]))

Last(s) == s[Len(s)]

\* C3: a set of a new key that pushes the count above maxSize >= 1 evicts
\* the key set or hit longest ago and keeps the new key (stated for the
\* sets after which the memory limit asks for no further eviction).
LRUEviction ==
  [][\A key \in keyspace, size \in 0..MaxTileSize, t \in 0..MaxTime :
       ( /\ DoSet(key, [data |-> key, size |-> size, lastAccessed |-> t])
         /\ ~Has(cache, key)
         /\ cache.maxSize >= 1
         /\ cache.currentSize + 1 > cache.maxSize
         /\ recency # <<>>
         /\ Has(cache, Last(recency))
         /\ cache.currentMemory + size - cache.map[Last(recency)].tile.size
              <= cache.maxMemory )
       => /\ ~hung'
          /\ DOMAIN cache'.map = (DOMAIN cache.map \ {Last(recency)}) \cup {key}]_vars

\* C4: the active set never holds more than maxConcurrent keys, and dequeue
\* hands out a task only below that ceiling.
ActiveCeiling ==
  /\ Cardinality(queue.activeTasks) <= queue.maxConcurrent
  /\ dequeue(queue).found => Cardinality(queue.activeTasks) < queue.maxConcurrent

\* the ceiling is reached while a task waits behind it
ActiveCeilingWitness ==
  /\ Cardinality(queue.activeTasks) = queue.maxConcurrent
  /\ Len(queue.tasks) > 0
  /\ ~dequeue(queue).found

PendingKeys == {TileKeyToString(queue.tasks[i].tileKey) : i \in 1..Len(queue.tasks)}

\* C5: no key has two tasks: the pending tasks have distinct keys, and no
\* key is pending and active at once.
OneTaskPerKey ==
  /\ Cardinality(PendingKeys) = Len(queue.tasks)
  /\ PendingKeys \cap queue.activeTasks = {}

\* C6: a request is rejected for a failed fetch only when it has made
\* exactly retryAttempts + 1 fetch attempts.
RetryCeiling ==
  [][\A c \in 1..Len(calls) :
       ( /\ Pending(calls[c])
         /\ calls'[c].state = "rejected"
         /\ calls'[c].outcome \in ErrorKinds )
       => calls[c].fetches = loader.retryAttempts + 1]_vars

\* a request was rejected after its retries ran out
RetryCeilingWitness ==
  \E c \in 1..Len(calls) :
    /\ calls[c].state = "rejected"
    /\ calls[c].outcome \in ErrorKinds
    /\ loader.retryAttempts >= 1

InRequestQueue(c) == \E i \in 1..Len(net.requestQueue) : net.requestQueue[i] = c

\* C7: every unsettled loadTile promise can still settle: a request that
\* waits for a transport slot has its executor in the transport's queue.
NoOrphanRequest ==
  \A c \in 1..Len(calls) : calls[c].state = "waiting" => InRequestQueue(c)

\* C8: a key whose loadTile promises have all settled is neither pending
\* nor active.
SlotsFreed ==
  \A c \in 1..Len(calls) :
    LET key == TileKeyToString(calls[c].tileKey)
    IN (\A d \in 1..Len(calls) :
          TileKeyToString(calls[d].tileKey) = key => ~Pending(calls[d]))
         => key \notin PendingKeys \cup queue.activeTasks

LoaderEmpty ==
  /\ Len(queue.tasks) = 0
  /\ Cardinality(queue.activeTasks) = 0
  /\ cache.currentSize = 0

\* C9 as claimed: right after any dispose() call the pending queue, the
\* active set and the cache are empty.
DisposeEmpties ==
  lastOp \in {"dispose", "dispose-uninitialized"} => LoaderEmpty

\* C9 amended: right after a dispose() call on an initialized loader the
\* pending queue, the active set and the cache are empty.
DisposeEmptiesInitialized ==
  lastOp = "dispose" => LoaderEmpty

\* dispose() has just returned on a loader that had requests under way
DisposeEmptiesWitness ==
  /\ lastOp = "dispose"
  /\ \E c \in 1..Len(calls) : Pending(calls[c])
  /\ cache.missCount > 0

\* C10: in the step after dispose() no fetch attempt is started for a call
\* made before it, and no tile of such a call is written to the cache.
NoWorkAfterDispose ==
  [][lastOp = "dispose" =>
       \A c \in 1..Len(calls) :
         /\ ~(calls'[c].state = "fetching" /\ calls'[c].fetches > calls[c].fetches)
         /\ ~(Pending(calls[c]) /\ calls'[c].state = "resolved")]_vars

KeysOf(tasks) == {TileKeyToString(tasks[i].tileKey) : i \in 1..Len(tasks)}

PriorityOf(tasks, key) == tasks[FindIndex(tasks, key)].priority

\* C11: an enqueue for a key that is pending adds no entry; the pending
\* task becomes HIGH when the request is HIGH and keeps its priority
\* otherwise; no enqueue lowers the priority of any pending task.
EscalateOnly ==
  [][\A tileKey \in QueueKeys, priority \in Priorities :
       LET key == TileKeyToString(tileKey)
       IN QEnqueue(tileKey, priority) =>
            /\ \A k \in KeysOf(queue.tasks) :
                 /\ k \in KeysOf(queue'.tasks)
                 /\ getPriorityValue(PriorityOf(queue'.tasks, k))
                      >= getPriorityValue(PriorityOf(queue.tasks, k))
            /\ key \in KeysOf(queue.tasks) =>
                 /\ Len(queue'.tasks) = Len(queue.tasks)
                 /\ KeysOf(queue'.tasks) = KeysOf(queue.tasks)
                 /\ PriorityOf(queue'.tasks, key) =
                      IF priority = "HIGH" THEN "HIGH"
                      ELSE PriorityOf(queue.tasks, key)
                 /\ \A k \in KeysOf(queue.tasks) \ {key} :
                      PriorityOf(queue'.tasks, k) = PriorityOf(queue.tasks, k)]_vars

\* a pending task was escalated to HIGH by a later enqueue for its key, and
\* is the only pending task of its key
EscalateOnlyWitness ==
  \E i \in 1..Len(queue.tasks) :
    /\ queue.tasks[i].priority = "HIGH"
    /\ queue.tasks[i].since > queue.tasks[i].id
    /\ \A j \in 1..Len(queue.tasks) :
         j # i => TileKeyToString(queue.tasks[j].tileKey)
                    # TileKeyToString(queue.tasks[i].tileKey)

QueueSorted ==
  \A i, j \in 1..Len(queue.tasks) :
    i < j => getPriorityValue(queue.tasks[i].priority)
               >= getPriorityValue(queue.tasks[j].priority)

HeadIsHighest ==
  dequeue(queue).found =>
    \A i \in 1..Len(queue.tasks) :
      getPriorityValue(Head(queue.tasks).priority)
        >= getPriorityValue(queue.tasks[i].priority)

\* C12 as claimed: the pending queue is ordered HIGH, NORMAL, LOW, dequeue
\* hands out a task of the highest pending priority, and of two pending
\* tasks of equal priority the one enqueued earlier comes first.
PriorityFifoOrder ==
  /\ QueueSorted
  /\ HeadIsHighest
  /\ \A i, j \in 1..Len(queue.tasks) :
       (i < j /\ queue.tasks[i].priority = queue.tasks[j].priority)
         => queue.tasks[i].id < queue.tasks[j].id

\* C12 amended: the pending queue is ordered HIGH, NORMAL, LOW, dequeue
\* hands out a task of the highest pending priority, and of two pending
\* tasks of equal priority the one that got this priority earlier (by its
\* enqueue, or by its escalation to HIGH) comes first.
PriorityOrder ==
  /\ QueueSorted
  /\ HeadIsHighest
  /\ \A i, j \in 1..Len(queue.tasks) :
       (i < j /\ queue.tasks[i].priority = queue.tasks[j].priority)
         => queue.tasks[i].since < queue.tasks[j].since

\* an escalated task waits behind a HIGH task enqueued after it and ahead of
\* a task of lower priority, with a task active
PriorityOrderWitness ==
  /\ Len(queue.tasks) >= 3
  /\ queue.activeTasks # {}
  /\ \E i, j \in 1..Len(queue.tasks) :
       /\ i < j
       /\ queue.tasks[i].priority = "HIGH"
       /\ queue.tasks[j].priority = "HIGH"
       /\ queue.tasks[j].since > queue.tasks[j].id
       /\ queue.tasks[i].id > queue.tasks[j].id
  /\ queue.tasks[Len(queue.tasks)].priority # "HIGH"

\* the keys of the access-order list, from head (most recently used) on
ListKeys(c) ==
  LET ids == WalkIds(c.list, c.list.head, {})
  IN [i \in 1..Len(ids) |-> c.list.nodes[ids[i]].value]

\* C13: a loadTile that finds its key in the cache starts no request and
\* leaves the pending queue, the active set and the transport alone; in the
\* cache it adds one to the hit counter, sets the tile's lastAccessed and
\* moves the key to the front of the access order, and nothing else.
CacheHitFrame ==
  [][\A tileKey \in LoaderKeys :
       LET key == TileKeyToString(tileKey)
       IN (Has(cache, key) /\ \E priority \in Priorities : LoadTile(tileKey, priority))
            => /\ queue' = queue
               /\ net' = net
               /\ calls' = calls
               /\ loader' = loader
               /\ DOMAIN cache'.map = DOMAIN cache.map
               /\ \A k \in DOMAIN cache.map :
                    cache'.map[k].tile =
                      IF k = key THEN [cache.map[k].tile EXCEPT !.lastAccessed = now]
                      ELSE cache.map[k].tile
               /\ ListKeys(cache') = <<key>> \o SeqDelete(ListKeys(cache), key)
               /\ cache'.hitCount = cache.hitCount + 1
               /\ cache'.order = cache.order
               /\ [cache' EXCEPT !.map = <<>>, !.list = NewList, !.hitCount = 0]
                    = [cache EXCEPT !.map = <<>>, !.list = NewList, !.hitCount = 0]]_vars

\* a loadTile has hit the cache while another key was being loaded
CacheHitFrameWitness ==
  /\ cache.hitCount > 0
  /\ cache.currentSize > 0
  /\ queue.activeTasks # {}
  /\ \E c \in 1..Len(calls) : calls[c].state = "fetching"

\* C14 as claimed: any loadTile for a key whose source is not registered
\* returns a promise that is rejected without a fetch attempt and without
\* touching the transport; the cached tiles stay as they are.
NoSourceRejects ==
  [][\A tileKey \in LoaderKeys :
       (tileKey.source \notin loader.dataSources
          /\ \E priority \in Priorities : LoadTile(tileKey, priority))
         => /\ Len(calls') = Len(calls) + 1
            /\ calls'[Len(calls')].state = "rejected"
            /\ calls'[Len(calls')].fetches = 0
            /\ net' = net
            /\ cache'.map = cache.map
            /\ ListKeys(cache') = ListKeys(cache)]_vars

\* C14 amended: a loadTile for a key that is not cached and whose source is
\* not registered returns a promise that is rejected without a fetch
\* attempt and without touching the transport or any other request; the
\* cache counts one miss and is otherwise unchanged.
NoSourceRejectsUncached ==
  [][\A tileKey \in LoaderKeys :
       (tileKey.source \notin loader.dataSources
          /\ ~Has(cache, TileKeyToString(tileKey))
          /\ \E priority \in Priorities : LoadTile(tileKey, priority))
         => /\ Len(calls') = Len(calls) + 1
            /\ calls'[Len(calls')].state = "rejected"
            /\ calls'[Len(calls')].fetches = 0
            /\ \A c \in 1..Len(calls) : calls'[c] = calls[c]
            /\ net' = net
            /\ cache' = [cache EXCEPT !.missCount = @ + 1]]_vars

\* a loadTile was rejected for its missing data source while the cache held
\* a tile
NoSourceRejectsWitness ==
  /\ cache.currentSize > 0
  /\ \E c \in 1..Len(calls) : calls[c].outcome = "nosource"

\* C15: once the caller has aborted the signal of a request that waits
\* between two attempts, no further fetch attempt is started for it.
AbortStopsRetries ==
  [][\A c \in 1..Len(calls) :
       (calls[c].signalAborted /\ calls[c].state = "backoff")
         => calls'[c].state # "fetching"]_vars

RECURSIVE SumSizes(_, _)
SumSizes(m, keys) ==
  IF keys = {} THEN 0
  ELSE LET k == CHOOSE k \in keys : TRUE
       IN m[k].tile.size + SumSizes(m, keys \ {k})

\* C16: whenever a call of TileCache has returned, currentMemory is the sum
\* of the sizes of the stored tiles, currentSize is the number of stored
\* entries, and the access-order list holds the stored keys, each once.
CacheConsistent ==
  ~hung =>
    /\ cache.currentMemory = SumSizes(cache.map, DOMAIN cache.map)
    /\ cache.currentSize = Cardinality(DOMAIN cache.map)
    /\ Len(ListKeys(cache)) = Cardinality(DOMAIN cache.map)
    /\ {ListKeys(cache)[i] : i \in 1..Len(ListKeys(cache))} = DOMAIN cache.map

\* a call of one of the operations that evict entries already stored
EvictingCall ==
  \/ DoEvictLRU
  \/ \E p \in Percentages : DoEvictPercentage(p)
  \/ \E maxAge \in 0..MaxTime : DoEvictByAge(maxAge)
  \/ \E n \in 0..MaxLimit : DoSetMaxSize(n)
  \/ \E m \in 0..MaxMemLimit : DoSetMaxMemory(m)

\* C17: every call that evicts adds to evictionCount the number of entries
\* it has removed from the cache (for set: of the entries stored once the
\* tile is inserted).
EvictionsCounted ==
  [][/\ (EvictingCall /\ ~hung')
          => cache'.evictionCount - cache.evictionCount
               = Cardinality(DOMAIN cache.map \ DOMAIN cache'.map)
     /\ \A key \in keyspace :
          ((\E size \in 0..MaxTileSize, t \in 0..MaxTime :
              DoSet(key, [data |-> key, size |-> size, lastAccessed |-> t]))
             /\ ~hung')
            => cache'.evictionCount - cache.evictionCount
                 = Cardinality((DOMAIN cache.map \cup {key}) \ DOMAIN cache'.map)]_vars

\* the keys that have a loadTile promise not yet settled
OutstandingKeys ==
  {TileKeyToString(calls[c].tileKey) : c \in {d \in 1..Len(calls) : Pending(calls[d])}}

\* C18: the number of pending tasks plus the number of active keys is the
\* number of distinct keys with an unsettled loadTile request.
QueueCountsInterest ==
  Len(queue.tasks) + Cardinality(queue.activeTasks) = Cardinality(OutstandingKeys)

\* the rate q is the fraction num / den
SameRatio(q, num, den) == q[1] * den = num * q[2]

\* C19: after H get calls that returned a tile and M that returned null,
\* getStats().hitRate is H / (H + M) and missRate is M / (H + M) when
\* H + M > 0, and both are 0 when no get call was made.
StatsCorrect ==
  LET H == lookups.hits
      M == lookups.misses
      st == getStats(cache)
  IN IF H + M > 0
       THEN /\ SameRatio(st.hitRate, H, H + M)
            /\ SameRatio(st.missRate, M, H + M)
       ELSE /\ SameRatio(st.hitRate, 0, 1)
            /\ SameRatio(st.missRate, 0, 1)

\* two hits and a miss have been counted, and the cache was emptied since
StatsCorrectWitness ==
  /\ lookups.hits = 2
  /\ lookups.misses = 1
  /\ cache.currentSize = 0
  /\ cache.evictionCount > 0

\* C20: every load that preloadTiles starts has its catch handler, so that
\* its rejection, for a missing data source or a failing transport, is
\* handled, and is asked for at LOW priority.
PreloadSafe ==
  /\ \A c \in 1..Len(calls) : calls[c].caught
  /\ \A i \in 1..Len(queue.tasks) : queue.tasks[i].priority = "LOW"

\* preloadTiles has returned with one load rejected for its missing data
\* source; another was rejected by the transport
PreloadSafeWitness ==
  /\ \E c \in 1..Len(calls) :
       calls[c].state = "rejected" /\ calls[c].outcome = "nosource" /\ calls[c].caught
  /\ \E c \in 1..Len(calls) :
       calls[c].state = "rejected" /\ calls[c].outcome \in ErrorKinds /\ calls[c].caught

\* C21: in the terrain TileLoader no tile key is in _activeTiles and in
\* _tileCache at the same time, whatever the order of update, loads,
\* preloads and culling.
NoTileInBothContainers ==
  TileSet(terrain.activeTiles) \cap terrain.tileCache = {}

\* C22: when dispose() of the terrain TileLoader returns, getLoadingStats
\* reports active = 0, cached = 0, loading = 0 and failed = 0, and a further
\* dispose() changes nothing and leaves the four counts at 0.
DisposeClearsCounts ==
  [][TDispose =>
       LET stats == getLoadingStats(terrain')
           again == getLoadingStats(dispose(terrain'))
       IN /\ stats.active = 0 /\ stats.cached = 0
          /\ stats.loading = 0 /\ stats.failed = 0
          /\ dispose(terrain') = terrain'
          /\ again.active = 0 /\ again.cached = 0
          /\ again.loading = 0 /\ again.failed = 0]_vars

\* dispose() has returned while a _loadTile call was waiting for its tile:
\* the call is still under way and _loadingTiles no longer holds its key
DisposeClearsCountsWitness ==
  /\ terrain.loads # EmptyBag
  /\ terrain.loadingTiles = {}
  /\ terrain.activeTiles = <<>>
  /\ terrain.tileCache = {}
  /\ terrain.failedTiles = {}
  /\ ~terrain.isInitialized

\* C23: between construction or a dispose() and the next dispose(), however
\* many initialize() calls are made and whenever they are made, the initial
\* tiles are loaded once.
InitialLoadOnce == terrain.initialLoads <= 1

\* C24: TMSDataSource.getUrl writes the flipped row 2^z - 1 - y in place of
\* {y} and x and z as given (z = 4, y = 1 gives 14); the flipped row lies in
\* 0..2^z - 1, and the URL of the key with the flipped row is the URL an XYZ
\* source of the same template gives for the key itself (flipping twice gives
\* the row back).
TmsRowFlip ==
  (ds.asked /\ ds.source.class = "TMSDataSource") =>
     LET k == ds.tileKey
         row == 2^k.z - 1 - k.y
         s == selectSubdomain(ds.source, [k EXCEPT !.y = row])
     IN /\ row \in 0..(2^k.z - 1)
        /\ 2^k.z - 1 - row = k.y
        /\ ds.source.urlTemplate = "/{z}/{x}/{y}" =>
             ds.url = "/" \o ToString(k.z) \o "/" \o ToString(k.x) \o "/" \o ToString(row)
        /\ ds.source.urlTemplate = "//{s}.t/{x}/{y}/{z}" =>
             ds.url = "//" \o s \o ".t/" \o ToString(k.x) \o "/" \o ToString(row)
                        \o "/" \o ToString(k.z)
        /\ getUrl(ds.source, [k EXCEPT !.y = row])
             = xyzGetUrl(ds.source, k)

\* the scenario: a TMS source asked for z = 4, x = 1, y = 1 wrote row 14
TmsRowFlipWitness ==
  /\ ds.asked
  /\ ds.source.class = "TMSDataSource"
  /\ ds.tileKey = [x |-> 1, y |-> 1, z |-> 4]
  /\ ds.url = "/4/1/14"

\* the query string of a URL: what follows the first "?"
QueryOf(url) == SubSeq(url, indexOf(url, "?") + 1, Len(url))

WmtsScenario ==
  /\ ds.asked
  /\ ds.source.class = "WMTSDataSource"
  /\ ds.source.layer = "world"
  /\ ds.tileKey = [x |-> 3, y |-> 2, z |-> 5]

\* C25 as stated: for a WMTS source with layer "world" and the key z = 5,
\* x = 3, y = 2 the query string returned by getUrl contains the text
\* TILEMATRIX=5&TILEROW=2&TILECOL=3&LAYER=world.
WmtsQueryText ==
  WmtsScenario =>
    indexOf(QueryOf(ds.url), "TILEMATRIX=5&TILEROW=2&TILECOL=3&LAYER=world") # 0

\* C25 as amended: for that source and key the query string contains
\* LAYER=world and, after it, TILEMATRIX=5&TILEROW=2&TILECOL=3; in general
\* the query carries the parameters TILEMATRIX=z, TILEROW=y, TILECOL=x and
\* LAYER=the layer of the source, form-encoded.
WmtsQueryParameters ==
  (ds.asked /\ ds.source.class = "WMTSDataSource") =>
     LET k == ds.tileKey
         query == "&" \o QueryOf(ds.url) \o "&"
         layer == IF ds.source.layer = "a b" THEN "a+b" ELSE ds.source.layer
     IN /\ indexOf(query, "&TILEMATRIX=" \o ToString(k.z) \o "&TILEROW=" \o ToString(k.y)
                             \o "&TILECOL=" \o ToString(k.x) \o "&") # 0
        /\ indexOf(query, "&LAYER=" \o layer \o "&") # 0
        /\ WmtsScenario =>
             /\ indexOf(query, "&LAYER=world&") # 0
             /\ indexOf(query, "&LAYER=world&")
                  < indexOf(query, "&TILEMATRIX=5&TILEROW=2&TILECOL=3&")

\* the scenario has been asked and the URL names the service
WmtsQueryParametersWitness ==
  /\ WmtsScenario
  /\ indexOf(ds.url, "?SERVICE=WMTS&") # 0

\* C26: DataSourceFactory.create with a type that is not xyz, tms or wmts in
\* any mix of cases throws an error and returns no data source; with one of
\* the three it returns a source, and getUrl of that source returns a URL
\* for every well-formed key asked.
FactoryRejectsUnknownType ==
  ds.created =>
    IF ds.type \in {"xyz", "tms", "wmts", "Tms", "WMTS"}
    THEN /\ ds.source # NoSource
         /\ ds.error = ""
         /\ ds.asked => Len(ds.url) > 0
    ELSE /\ ds.source = NoSource
         /\ ds.error = "Unsupported data source type: " \o ds.type
         /\ ~ds.asked

\* create was called with the type "wms" and threw
FactoryRejectsUnknownTypeWitness ==
  /\ ds.created
  /\ ds.type = "wms"
  /\ ds.source = NoSource
  /\ ds.error # ""

\* the calls whose request has started a fetch and has not settled
Fetching == {c \in 1..Len(calls) : calls[c].state \in {"fetching", "backoff"}}

\* C27: a request has a fetch under way only when the queue has dequeued the
\* task of its key into the active set; hence the loads that have started
\* and not settled are never more than maxConcurrentLoads.
FetchAfterAdmission ==
  /\ \A c \in Fetching : TileKeyToString(calls[c].tileKey) \in queue.activeTasks
  /\ Cardinality(Fetching) <= loader.maxConcurrentLoads

\* C28: in the step in which the request of an active task settles while
\* tasks of other keys are pending, the loader dequeues one of them into the
\* active set (pending tasks do not wait for another loadTile call).
CompletionDrainsQueue ==
  [][\A c \in 1..Len(calls) :
       LET key == TileKeyToString(calls[c].tileKey)
           waiting == {TileKeyToString(queue.tasks[i].tileKey) : i \in 1..Len(queue.tasks)}
                        \ {key}
       IN ( /\ Pending(calls[c])
            /\ ~Pending(calls'[c])
            /\ key \in queue.activeTasks
            /\ waiting # {} )
          => waiting \cap queue'.activeTasks # {}]_vars

\* C29: currentRequests of the NetworkManager is the number of requests
\* whose executor is running (between attempts included), and it stays
\* within 0..maxConcurrentRequests, cancelAllRequests() calls included.
CounterMatchesExecuting ==
  /\ net.currentRequests = Cardinality(Fetching)
  /\ net.currentRequests >= 0
  /\ net.currentRequests <= net.maxConcurrentRequests

\* C30: when attempt k of a request fails and a retry follows, the wait
\* before the next attempt is retryDelay * 2^k; the final attempt and an
\* attempt that the caller's abort ended are followed by no wait: the
\* request is rejected at once.
BackoffWait ==
  [][\A c \in 1..Len(calls) :
       LET k == calls[c].attempt
           failed == /\ calls[c].state = "fetching"
                     /\ \/ calls'[c].state \in {"backoff", "rejected"}
                        \/ calls'[c].attempt = k + 1
           wait == IF calls'[c].state = "backoff" THEN calls'[c].delay ELSE 0
       IN failed =>
            /\ calls'[c].state # "rejected" => wait = net.defaultRetryDelay * 2^k
            /\ (k = loader.retryAttempts \/ (calls[c].aborted /\ calls[c].signalAborted))
                 => (calls'[c].state = "rejected" /\ calls'[c].delay = 0)]_vars

\* the third attempt of a request has failed and it waits 2 * 2^2 before
\* its last one
BackoffWaitWitness ==
  \E c \in 1..Len(calls) :
    /\ calls[c].state = "backoff"
    /\ calls[c].attempt = 2
    /\ net.defaultRetryDelay = 2
    /\ calls[c].delay = 8

\* C31: a set of a tile whose size alone exceeds maxMemory, once it has
\* returned, leaves the cache empty (no entry, count 0, memory 0), and
\* evictionCount has grown by the number of entries removed: the older
\* entries and the new tile.
OversizedSetEmpties ==
  [][\A key \in keyspace, size \in 0..MaxTileSize, t \in 0..MaxTime :
       ( /\ size > cache.maxMemory
         /\ DoSet(key, [data |-> key, size |-> size, lastAccessed |-> t])
         /\ ~hung' )
       => /\ DOMAIN cache'.map = {}
          /\ cache'.currentSize = 0
          /\ cache'.currentMemory = 0
          /\ cache'.evictionCount - cache.evictionCount
               = Cardinality(DOMAIN cache.map \cup {key})]_vars

\* the stored keys last accessed more than maxAge before the present time
Aged(maxAge) == {k \in DOMAIN cache.map : now - cache.map[k].tile.lastAccessed > maxAge}

\* C32: evictByAge(maxAge) removes exactly the entries last accessed more
\* than maxAge ago, wherever they stand in the LRU order; the other entries
\* keep their relative order in the list; and afterwards the count, the
\* memory total and the list agree with the entries that remain.
EvictByAgeExact ==
  [][\A maxAge \in 0..MaxTime :
       DoEvictByAge(maxAge)
       => /\ DOMAIN cache'.map = DOMAIN cache.map \ Aged(maxAge)
          /\ ListKeys(cache') = SelectSeq(ListKeys(cache), LAMBDA k : k \notin Aged(maxAge))
          /\ cache'.currentSize = Cardinality(DOMAIN cache'.map)
          /\ cache'.currentMemory = SumSizes(cache'.map, DOMAIN cache'.map)
          /\ {ListKeys(cache')[i] : i \in 1..Len(ListKeys(cache'))} = DOMAIN cache'.map
          /\ Len(ListKeys(cache')) = Cardinality(DOMAIN cache'.map)]_vars

\* the number of _createTile calls for this tile that have not returned:
\* those awaited by _loadTile and those awaited by _preloadTile
Creating(tile) ==
  LET L == {l \in BagToSet(terrain.loads) : l.tile = tile}
      B == {b \in BagToSet(terrain.batches) : tile \in b}
  IN (IF L = {} THEN 0 ELSE BagCardinality([l \in L |-> terrain.loads[l]]))
     + (IF B = {} THEN 0 ELSE BagCardinality([b \in B |-> terrain.batches[b]]))

\* C33: at most one creation of a tile (mesh and texture) is under way per
\* tile key at any time, the loads and the preloads counted together.
OneCreationPerTile ==
  \A tile \in {l.tile : l \in BagToSet(terrain.loads)} \cup UNION BagToSet(terrain.batches) :
    Creating(tile) <= 1

\* C34: the tile cache of the terrain loader never holds more than
\* maxCacheSize tiles, whether they came from culling or from preloading.
TerrainCacheBound ==
  Cardinality(terrain.tileCache) <= terrain.maxCacheSize

\* getLoadingStats reports active = cached = loading = failed = 0
CountsZero(t) ==
  /\ getLoadingStats(t).active = 0
  /\ getLoadingStats(t).cached = 0
  /\ getLoadingStats(t).loading = 0
  /\ getLoadingStats(t).failed = 0

\* C35: a load or a preload that was under way when dispose() was called
\* adds nothing afterwards: when its tile arrives while the four counts are
\* 0, as dispose() left them (no load has been asked for since), they stay 0.
NothingAfterTerrainDispose ==
  [][/\ \A load \in BagToSet(terrain.loads), ok \in BOOLEAN :
          (CountsZero(terrain) /\ TLoadDone(load, ok)) => CountsZero(terrain')
     /\ \A batch \in BagToSet(terrain.batches) :
          \A tile \in batch, ok \in BOOLEAN :
            (CountsZero(terrain) /\ TPreloadDone(batch, tile, ok)) => CountsZero(terrain')]_vars

\* C36: two tile keys have the same canonical string exactly when
\* TileKeyUtils.equals holds of them (all five fields equal), whatever
\* strings their source and layer are.
KeyStringInjective ==
  compared.called => ((compared.strA = compared.strB) <=> compared.equals)

\* C37: no operation on a TileCache makes its hit, miss or eviction counter
\* smaller: clear(), remove() and the changes of the limits included.
CountersMonotonic ==
  [][/\ cache'.hitCount >= cache.hitCount
     /\ cache'.missCount >= cache.missCount
     /\ cache'.evictionCount >= cache.evictionCount]_vars

\* the cache has been emptied by clear() or remove() (nothing was evicted)
\* after a hit and a miss, and the two counters stand
CountersMonotonicWitness ==
  /\ DOMAIN cache.map = {}
  /\ cache.hitCount > 0
  /\ cache.missCount > 0
  /\ cache.evictionCount = 0

\* C38: evictPercentage(p), 0 <= p <= 1, on a cache of n entries removes
\* ceil(n * p) entries, those set or hit longest ago; evictionCount grows by
\* that number; the entries that remain keep their order in the list, and
\* the count and the memory total agree with them.
EvictPercentageExact ==
  [][\A p \in Percentages :
       DoEvictPercentage(p)
       => LET n == Cardinality(DOMAIN cache.map)
              k == CeilDiv(n * p[1], p[2])
              kept == SubSeq(recency, 1, Len(recency) - k)
          IN /\ Len(recency) = n
             /\ DOMAIN cache'.map = {kept[i] : i \in 1..Len(kept)}
             /\ Cardinality(DOMAIN cache'.map) = n - k
             /\ cache'.evictionCount = cache.evictionCount + k
             /\ ListKeys(cache') = kept
             /\ cache'.currentSize = n - k
             /\ cache'.currentMemory = SumSizes(cache'.map, DOMAIN cache'.map)]_vars

\* C39: every call of a TileCache operation returns: no call of set,
\* setMaxSize or setMaxMemory stays in its eviction loop for ever, whatever
\* the limits, the tile sizes and the key strings (the empty one included).
CacheCallsReturn == ~hung

\* how many times the callback id stands in the sequence of invocations
Invocations(invoked, id) == Cardinality({i \in 1..Len(invoked) : invoked[i] = id})

\* C40: publish invokes, exactly once, every callback that was subscribed
\* to the event when publish was called, also when a callback throws or
\* unsubscribes itself or another subscriber during the delivery.
PublishReachesAll ==
  bus.last.published =>
    \A i \in 1..Len(bus.last.subscribed) :
      Invocations(bus.last.invoked, bus.last.subscribed[i]) = 1

====
